---- MODULE Spec2Model ----
(***************************************************************************)
(* State-machine model of SecurityScanWorkflow (temporal/workflows.py),    *)
(* its activities (temporal/activities.py) and its data model              *)
(* (temporal/models.py).                                                   *)
(*                                                                         *)
(* One step of the model is one run of the workflow coroutine between two  *)
(* awaits (the workflow is single-threaded: a signal handler, a query and  *)
(* the code between two awaits never interleave), or one attempt of an     *)
(* activity made by the durable-execution substrate under GITHUB_API_RETRY.*)
(***************************************************************************)
EXTENDS Integers, Sequences, FiniteSets, TLC

\* ---------------------------------------------------------------- bounds
\* Largest resource list the fetch step returns in the model.
MaxRepos == 4

\* workflows.py:115 sets BATCH_SIZE = 10; the model scales it down so that a
\* list of MaxRepos resources still spans several batches.
BATCH_SIZE == 2

\* ------------------------------------------------------ program constants
\* GITHUB_API_RETRY (workflows.py:95-101)
initial_interval == 2
backoff_coefficient == 2
maximum_interval == 60
maximum_attempts == 5
\* A retry policy that names no non-retryable error type.
non_retryable_error_types_None == {}
non_retryable_error_types == {"ValueError"}

\* SecurityStatus (models.py:35-48)
ENABLED_STATUS == "enabled"
DISABLED == "disabled"
NOT_CONFIGURED == "not configured"
NO_ACCESS == "no access"
UNKNOWN == "unknown"

\* ------------------------------------------------------------ input sets
Orgs == {"test-org"}
Tokens == {"ghp_a"}
Reasons == {"r1", "r2"}

\* Responses of GET /orgs/{org}/repos: status code, whether the body mentions
\* a rate limit, and the number of repositories listed.
FetchResponses ==
  [code : {200}, rate_limit : {FALSE}, n : 0..MaxRepos]
    \cup [code : {404, 401, 500}, rate_limit : {FALSE}, n : {0}]
    \cup [code : {403}, rate_limit : {TRUE}, n : {0}]

\* Responses of the three calls of one check: the repository call (status code
\* and secret_scanning status), the vulnerability-alerts call, the
\* code-scanning call.
CheckResponses ==
  { [repo |-> 200, secret |-> ENABLED_STATUS, dependabot |-> 204, code |-> 200],
    [repo |-> 200, secret |-> ENABLED_STATUS, dependabot |-> 404, code |-> 404],
    [repo |-> 404, secret |-> UNKNOWN, dependabot |-> 404, code |-> 404] }

\* Exceptions one attempt of check_repo_security raises (Timeout and
\* ConnectionError are both re-raised as RuntimeError).
CheckErrors == {"RuntimeError"}

VARIABLES
  pc,               \* position of run(): init, fetch, gather, report, done, failed
  input,            \* ScanInput given to run()
  progress,         \* self._progress
  results,          \* self._results
  cancel_requested, \* self._cancel_requested
  cancel_reason,    \* self._cancel_reason
  repos,            \* result of fetch_org_repos
  batch_start,      \* loop variable of the batch loop
  fetchTask,        \* the fetch_org_repos activity as the substrate tracks it
  tasks,            \* the check_repo_security activities, by repository index
  report,           \* value returned by run()
  queryResult,      \* answer given to the last query
  cancelPhases,     \* history: positions of run() at which cancel_scan arrived
  cancelRepeated,   \* history: cancel_scan arrived again with the recorded reason
  batch_size,       \* batchSize: resources per batch
  pause_requested,  \* pauseRequested
  pause_duration_seconds, \* pauseDurationSeconds
  timer_active,     \* timerActive: the pause timer is running
  handlers,         \* update handlers in progress (validated, not yet completed)
  updateResult,     \* what the last update returned to its caller
  calls,            \* pause_scan and update_batch_size calls delivered so far
  checkpoint,       \* the Checkpoint this run was seeded from, or handed off last
  wire              \* payloads of the codec: plain, as encoded, as decoded

\* The state of the control plane other than cancellation.
cpVars == <<batch_size, pause_requested, pause_duration_seconds, timer_active,
            handlers, updateResult, calls, checkpoint>>

vars == <<pc, input, progress, results, cancel_requested, cancel_reason, repos,
          batch_start, fetchTask, tasks, report, queryResult, cancelPhases,
          cancelRepeated, cpVars, wire>>

wfVars == <<pc, input, progress, results, cancel_requested, cancel_reason, repos,
            batch_start, fetchTask, tasks, report>>

NoInput == [org |-> "", token |-> ""]
NoReport == [none |-> TRUE]
NoQuery == [query |-> "none"]
NoUpdate == [none |-> TRUE]
NoCheckpoint == [none |-> TRUE]
NoWire == [none |-> TRUE]

Min(a, b) == IF a < b THEN a ELSE b

RECURSIVE Pow(_, _)
Pow(b, e) == IF e = 0 THEN 1 ELSE b * Pow(b, e - 1)

\* ------------------------------------------------------------ data model
ScanProgress(org, status) ==
  [org |-> org, total_repos |-> 0, scanned_repos |-> 0, compliant_repos |-> 0,
   non_compliant_repos |-> 0, errors |-> 0, status |-> status]

\* A result that keeps the token it was obtained with.
RepoSecurityResult_WithToken(repository) ==
  [repository |-> repository, secret_scanning |-> UNKNOWN,
   dependabot_alerts |-> UNKNOWN, code_scanning |-> UNKNOWN, error |-> "None",
   token |-> input.token]

RepoSecurityResult(repository) ==
  [repository |-> repository, secret_scanning |-> UNKNOWN,
   dependabot_alerts |-> UNKNOWN, code_scanning |-> UNKNOWN, error |-> "None"]

\* A compliance test that fails on a disabled feature only.
is_fully_compliant_NotDisabled(r) ==
  /\ r.secret_scanning # DISABLED
  /\ r.dependabot_alerts # DISABLED
  /\ r.code_scanning # DISABLED

is_fully_compliant(r) ==
  /\ r.secret_scanning = ENABLED_STATUS
  /\ r.dependabot_alerts = ENABLED_STATUS
  /\ r.code_scanning = ENABLED_STATUS

\* --------------------------------------------------------- retry policy
\* A policy that retries the error types it knows to be transient and no other.
IsNonRetryable_UnlessListed(errType) == errType # "RuntimeError"

\* An error type the policy does not retry.
IsNonRetryable(errType) == errType \in non_retryable_error_types

\* Wait before the next attempt, after `failed` failed attempts.
RetryInterval(failed) ==
  Min(initial_interval * Pow(backoff_coefficient, failed - 1), maximum_interval)

\* An activity as the substrate tracks it: its state (none, scheduled,
\* completed, failed), the failed attempts so far, the backoff wait before the
\* attempt in progress, the error of the last failed attempt, and the value it
\* resolved to. The retry state of a completed activity is not kept.
NoValue == [pending |-> TRUE]
NotScheduled ==
  [state |-> "none", attempts |-> 0, wait |-> 0, lastError |-> "", value |-> NoValue]
Scheduled ==
  [state |-> "scheduled", attempts |-> 0, wait |-> 0, lastError |-> "",
   value |-> NoValue]

\* FailAttempt that allows one attempt more than maximum_attempts.
FailAttempt_OneMore(t, errType) ==
  IF IsNonRetryable(errType) \/ t.attempts + 1 > maximum_attempts
    THEN [state |-> "failed", attempts |-> t.attempts + 1, wait |-> t.wait,
          lastError |-> errType, value |-> [exception |-> errType]]
    ELSE [state |-> "scheduled", attempts |-> t.attempts + 1,
          wait |-> RetryInterval(t.attempts + 1), lastError |-> errType,
          value |-> NoValue]

\* One failed attempt of an activity in state `t`: retried after a backoff wait
\* unless the error type is non-retryable or the attempts are used up.
FailAttempt(t, errType) ==
  IF IsNonRetryable(errType) \/ t.attempts + 1 >= maximum_attempts
    THEN [state |-> "failed", attempts |-> t.attempts + 1, wait |-> t.wait,
          lastError |-> errType, value |-> [exception |-> errType]]
    ELSE [state |-> "scheduled", attempts |-> t.attempts + 1,
          wait |-> RetryInterval(t.attempts + 1), lastError |-> errType,
          value |-> NoValue]

\* A successful attempt: the activity completes with `v`.
CompleteAttempt(t, v) ==
  [state |-> "completed", attempts |-> 0, wait |-> 0, lastError |-> "", value |-> v]

\* ------------------------------------------------------------ activities
\* fetch_org_repos that reports an invalid token as a transient error.
fetch_org_repos_401Transient(resp) ==
  IF resp.code = 404 THEN [raise |-> "ValueError"]
  ELSE IF resp.code = 401 THEN [raise |-> "RuntimeError"]
  ELSE IF resp.code = 403 /\ resp.rate_limit THEN [raise |-> "RuntimeError"]
  ELSE IF resp.code >= 400 THEN [raise |-> "HTTPError"]
  ELSE [return |-> [i \in 1..resp.n |-> i]]

\* fetch_org_repos on one response: the exception it raises, or the list.
fetch_org_repos(resp) ==
  IF resp.code = 404 THEN [raise |-> "ValueError"]
  ELSE IF resp.code = 401 THEN [raise |-> "ValueError"]
  ELSE IF resp.code = 403 /\ resp.rate_limit THEN [raise |-> "RuntimeError"]
  ELSE IF resp.code >= 400 THEN [raise |-> "HTTPError"]
  ELSE [return |-> [i \in 1..resp.n |-> i]]

\* check_repo_security on the responses of its three calls.
check_repo_security(repo_name, resp) ==
  LET r0 == RepoSecurityResult(repo_name)
      r1 == IF resp.repo = 200 THEN [r0 EXCEPT !.secret_scanning = resp.secret]
            ELSE r0
      r2 == IF resp.dependabot = 204 THEN [r1 EXCEPT !.dependabot_alerts = ENABLED_STATUS]
            ELSE IF resp.dependabot = 404
                   THEN [r1 EXCEPT !.dependabot_alerts = DISABLED]
            ELSE r1
      r3 == IF resp.code = 200 THEN [r2 EXCEPT !.code_scanning = ENABLED_STATUS]
            ELSE IF resp.code = 404 THEN [r2 EXCEPT !.code_scanning = NOT_CONFIGURED]
            ELSE IF resp.code = 403 THEN [r2 EXCEPT !.code_scanning = NO_ACCESS]
            ELSE r2
  IN IF resp.repo = 404 THEN [r0 EXCEPT !.error = "Repository not found"]
     ELSE r3

\* [r.repository for r in results if not r.is_fully_compliant and r.error is None]
RECURSIVE NonCompliantNames(_)
NonCompliantNames(rs) ==
  IF rs = <<>> THEN <<>>
  ELSE IF ~is_fully_compliant(Head(rs)) /\ Head(rs).error = "None"
    THEN <<Head(rs).repository>> \o NonCompliantNames(Tail(rs))
    ELSE NonCompliantNames(Tail(rs))

\* A compliance rate that is "N/A" when no result is compliant.
ComplianceRate_NAWhenNone(compliant, total) ==
  IF compliant > 0
    THEN LET q == (compliant * 1000) \div total
             rem2 == 2 * ((compliant * 1000) % total)
         IN [tenths |-> IF rem2 > total \/ (rem2 = total /\ q % 2 = 1)
                          THEN q + 1 ELSE q]
    ELSE [na |-> TRUE]

\* compliance_rate: "N/A" for an empty list, else the rate in tenths of a
\* percent, rounded half to even as the format spec ".1f" does.
ComplianceRate(compliant, total) ==
  IF total > 0
    THEN LET q == (compliant * 1000) \div total
             rem2 == 2 * ((compliant * 1000) % total)
         IN [tenths |-> IF rem2 > total \/ (rem2 = total /\ q % 2 = 1)
                          THEN q + 1 ELSE q]
    ELSE [na |-> TRUE]

\* A report that lists every result that is not compliant, errors included.
generate_report_ListsErrors(org, rs) ==
  LET total == Len(rs)
      compliant == Cardinality({i \in DOMAIN rs : is_fully_compliant(rs[i])})
      listed == SelectSeq(rs, LAMBDA r : ~is_fully_compliant(r))
  IN [org |-> org,
      total_repos |-> total,
      fully_compliant |-> compliant,
      compliance_rate |-> ComplianceRate(compliant, total),
      secret_scanning_enabled |->
        Cardinality({i \in DOMAIN rs : rs[i].secret_scanning = ENABLED_STATUS}),
      dependabot_enabled |->
        Cardinality({i \in DOMAIN rs : rs[i].dependabot_alerts = ENABLED_STATUS}),
      code_scanning_enabled |->
        Cardinality({i \in DOMAIN rs : rs[i].code_scanning = ENABLED_STATUS}),
      errors |-> Cardinality({i \in DOMAIN rs : rs[i].error # "None"}),
      non_compliant_repos |-> [k \in DOMAIN listed |-> listed[k].repository]]

generate_report(org, rs) ==
  LET total == Len(rs)
      compliant == Cardinality({i \in DOMAIN rs : is_fully_compliant(rs[i])})
  IN [org |-> org,
      total_repos |-> total,
      fully_compliant |-> compliant,
      compliance_rate |-> ComplianceRate(compliant, total),
      secret_scanning_enabled |->
        Cardinality({i \in DOMAIN rs : rs[i].secret_scanning = ENABLED_STATUS}),
      dependabot_enabled |->
        Cardinality({i \in DOMAIN rs : rs[i].dependabot_alerts = ENABLED_STATUS}),
      code_scanning_enabled |->
        Cardinality({i \in DOMAIN rs : rs[i].code_scanning = ENABLED_STATUS}),
      errors |-> Cardinality({i \in DOMAIN rs : rs[i].error # "None"}),
      non_compliant_repos |-> NonCompliantNames(rs)]

\* ------------------------------------------------------------- workflow
\* MergeResult with the non-compliant count taken outside the else branch.
MergeResult_NoElse(st, result) ==
  IF "exception" \in DOMAIN result
    THEN [st EXCEPT !.progress.errors = @ + 1]
  ELSE IF "repository" \notin DOMAIN result
    THEN st
    ELSE LET p1 == [st.progress EXCEPT !.scanned_repos = @ + 1,
                                       !.non_compliant_repos = @ + 1]
             p2 == IF is_fully_compliant(result)
                     THEN [p1 EXCEPT !.compliant_repos = @ + 1]
                     ELSE p1
         IN [progress |-> p2, results |-> Append(st.results, result)]

\* MergeResult that takes the non-compliant count as what is left of the
\* items merged so far.
MergeResult_NonCompliantByDifference(st, result) ==
  IF "exception" \in DOMAIN result
    THEN [st EXCEPT !.progress.errors = @ + 1]
  ELSE IF "repository" \notin DOMAIN result
    THEN st
    ELSE LET p1 == [st.progress EXCEPT !.scanned_repos = @ + 1]
             p2 == IF is_fully_compliant(result)
                     THEN [p1 EXCEPT !.compliant_repos = @ + 1]
                     ELSE [p1 EXCEPT !.non_compliant_repos =
                             p1.scanned_repos + p1.errors - p1.compliant_repos]
         IN [progress |-> p2, results |-> Append(st.results, result)]

\* MergeResult that puts the newest result first.
MergeResult_Prepend(st, result) ==
  IF "exception" \in DOMAIN result
    THEN [st EXCEPT !.progress.errors = @ + 1]
  ELSE IF "repository" \notin DOMAIN result
    THEN st
    ELSE LET p1 == [st.progress EXCEPT !.scanned_repos = @ + 1]
             p2 == IF is_fully_compliant(result)
                     THEN [p1 EXCEPT !.compliant_repos = @ + 1]
                     ELSE [p1 EXCEPT !.non_compliant_repos = @ + 1]
         IN [progress |-> p2, results |-> <<result>> \o st.results]

\* MergeResult that counts an item whose check gave up as scanned.
MergeResult_ExceptionScanned(st, result) ==
  IF "exception" \in DOMAIN result
    THEN [st EXCEPT !.progress.errors = @ + 1,
                    !.progress.scanned_repos = @ + 1]
  ELSE IF "repository" \notin DOMAIN result
    THEN st
    ELSE LET p1 == [st.progress EXCEPT !.scanned_repos = @ + 1]
             p2 == IF is_fully_compliant(result)
                     THEN [p1 EXCEPT !.compliant_repos = @ + 1]
                     ELSE [p1 EXCEPT !.non_compliant_repos = @ + 1]
         IN [progress |-> p2, results |-> Append(st.results, result)]

\* Body of the loop `for result in batch_results` for one result.
MergeResult(st, result) ==
  IF "exception" \in DOMAIN result
    THEN [st EXCEPT !.progress.errors = @ + 1]
  ELSE IF "repository" \notin DOMAIN result
    THEN st
    ELSE LET p1 == [st.progress EXCEPT !.scanned_repos = @ + 1]
             p2 == IF is_fully_compliant(result)
                     THEN [p1 EXCEPT !.compliant_repos = @ + 1]
                     ELSE [p1 EXCEPT !.non_compliant_repos = @ + 1]
         IN [progress |-> p2, results |-> Append(st.results, result)]

\* MergeBatch that leaves the loop at the first failed item.
RECURSIVE MergeBatch_StopAtException(_, _)
MergeBatch_StopAtException(st, batch_results) ==
  IF batch_results = <<>> THEN st
  ELSE IF "exception" \in DOMAIN Head(batch_results)
    THEN MergeResult(st, Head(batch_results))
    ELSE MergeBatch_StopAtException(MergeResult(st, Head(batch_results)),
                                    Tail(batch_results))

\* The loop `for result in batch_results`.
RECURSIVE MergeBatch(_, _)
MergeBatch(st, batch_results) ==
  IF batch_results = <<>> THEN st
  ELSE MergeBatch(MergeResult(st, Head(batch_results)), Tail(batch_results))

\* batch = repos[batch_start : batch_start + BATCH_SIZE], as indices of repos.
Batch(rs, b) == (b + 1)..Min(b + BATCH_SIZE, Len(rs))

\* A gather that returns as soon as one task of the batch has resolved.
GatherDone_Any(ts, batch) == \E i \in batch : ts[i].state # "scheduled"

\* asyncio.gather(*tasks, return_exceptions=True) returns once no task of the
\* batch is pending.
GatherDone(ts, batch) == \A i \in batch : ts[i].state # "scheduled"

\* The values gather returns, in the order of the batch.
BatchResults(ts, rs, b) ==
  [k \in 1..Cardinality(Batch(rs, b)) |-> ts[b + k].value]

\* LoopHead whose break on the cancel flag does not set the status, so that the
\* scan is then marked completed.
LoopHead_BreakUnmarked(rs, b, prog, ts) ==
  IF b < Len(rs) /\ ~cancel_requested
    THEN /\ progress' = prog
         /\ batch_start' = b
         /\ tasks' = [i \in DOMAIN ts \cup Batch(rs, b) |->
                        IF i \in Batch(rs, b) THEN Scheduled ELSE ts[i]]
         /\ pc' = "gather"
    ELSE /\ progress' = [prog EXCEPT !.status = "completed"]
         /\ batch_start' = b
         /\ tasks' = ts
         /\ pc' = "report"

\* LoopHead without the check of the cancel flag.
LoopHead_NoCancelCheck(rs, b, prog, ts) ==
  IF b < Len(rs)
    THEN /\ progress' = prog
         /\ batch_start' = b
         /\ tasks' = [i \in DOMAIN ts \cup Batch(rs, b) |->
                        IF i \in Batch(rs, b) THEN Scheduled ELSE ts[i]]
         /\ pc' = "gather"
    ELSE /\ progress' = [prog EXCEPT !.status =
                           IF prog.status # "cancelled" THEN "completed" ELSE @]
         /\ batch_start' = b
         /\ tasks' = ts
         /\ pc' = "report"

\* run() from the head of the batch loop at batch_start = b up to its next
\* await: the await of the batch it dispatches, or, when the loop ends (range
\* used up, or break on the cancel flag), the await of generate_report.
LoopHead(rs, b, prog, ts) ==
  IF b < Len(rs) /\ ~cancel_requested
    THEN /\ progress' = prog
         /\ batch_start' = b
         /\ tasks' = [i \in DOMAIN ts \cup Batch(rs, b) |->
                        IF i \in Batch(rs, b) THEN Scheduled ELSE ts[i]]
         /\ pc' = "gather"
    ELSE /\ progress' =
              IF b < Len(rs)
                THEN [prog EXCEPT !.status = "cancelled"]
                ELSE [prog EXCEPT !.status =
                        IF prog.status # "cancelled" THEN "completed" ELSE @]
         /\ batch_start' = b
         /\ tasks' = ts
         /\ pc' = "report"

Init ==
  /\ pc = "init"
  /\ input = NoInput
  /\ progress = ScanProgress("", "starting")
  /\ results = <<>>
  /\ cancel_requested = FALSE
  /\ cancel_reason = ""
  /\ repos = <<>>
  /\ batch_start = 0
  /\ fetchTask = NotScheduled
  /\ tasks = <<>>
  /\ report = NoReport
  /\ queryResult = NoQuery
  /\ cancelPhases = {}
  /\ cancelRepeated = FALSE
  /\ batch_size = BATCH_SIZE
  /\ pause_requested = FALSE
  /\ pause_duration_seconds = 0
  /\ timer_active = FALSE
  /\ handlers = {}
  /\ updateResult = NoUpdate
  /\ calls = 0
  /\ checkpoint = NoCheckpoint
  /\ wire = NoWire

\* run() up to its first await: the fetch_org_repos activity is scheduled.
RunStart ==
  /\ pc = "init"
  /\ \E org \in Orgs, token \in Tokens :
       /\ input' = [org |-> org, token |-> token]
       /\ progress' = ScanProgress(org, "starting")
  /\ fetchTask' = Scheduled
  /\ pc' = "fetch"
  /\ UNCHANGED <<results, cancel_requested, cancel_reason, repos, batch_start,
                 tasks, report, queryResult, cancelPhases,
                 cancelRepeated, cpVars, wire>>

\* One attempt of fetch_org_repos raises: the substrate retries it or fails the
\* activity, and a failed activity raises out of run().
FetchFail(resp) ==
  /\ pc = "fetch"
  /\ fetchTask.state = "scheduled"
  /\ "raise" \in DOMAIN fetch_org_repos(resp)
  /\ fetchTask' = FailAttempt(fetchTask, fetch_org_repos(resp).raise)
  /\ pc' = IF fetchTask'.state = "failed" THEN "failed" ELSE "fetch"
  /\ UNCHANGED <<input, progress, results, cancel_requested, cancel_reason,
                 repos, batch_start, tasks, report, queryResult, cancelPhases,
                 cancelRepeated, cpVars, wire>>

\* One attempt of fetch_org_repos returns the list: run() resumes, records
\* total_repos, and enters the batch loop.
FetchReturn(resp) ==
  /\ pc = "fetch"
  /\ fetchTask.state = "scheduled"
  /\ "return" \in DOMAIN fetch_org_repos(resp)
  /\ LET rs == fetch_org_repos(resp).return IN
       /\ fetchTask' = CompleteAttempt(fetchTask, Len(rs))
       /\ repos' = rs
       /\ LoopHead(rs, 0,
                   [progress EXCEPT !.total_repos = Len(rs), !.status = "scanning"],
                   tasks)
  /\ UNCHANGED <<input, results, cancel_requested, cancel_reason, report,
                 queryResult, cancelPhases,
                 cancelRepeated, cpVars, wire>>

\* AfterResolve that merges each result as soon as its check resolves.
AfterResolve_MergeEach(ts) ==
  LET new == {i \in DOMAIN ts : ts[i] # tasks[i] /\ ts[i].state # "scheduled"}
      st0 == [progress |-> progress, results |-> results]
      st == IF new = {} THEN st0
            ELSE MergeResult(st0, ts[CHOOSE i \in new : TRUE].value)
  IN IF GatherDone(ts, Batch(repos, batch_start))
       THEN /\ results' = st.results
            /\ LoopHead(repos, batch_start + BATCH_SIZE, st.progress, ts)
       ELSE /\ tasks' = ts
            /\ progress' = st.progress
            /\ results' = st.results
            /\ UNCHANGED <<pc, batch_start>>

\* run() after one check activity of the batch in flight resolved to ts[i]:
\* still awaiting gather while another task is pending; else the results of
\* the batch are merged and the loop goes on.
AfterResolve(ts) ==
  IF GatherDone(ts, Batch(repos, batch_start))
    THEN LET st == MergeBatch([progress |-> progress, results |-> results],
                              BatchResults(ts, repos, batch_start))
         IN /\ results' = st.results
            /\ LoopHead(repos, batch_start + BATCH_SIZE, st.progress, ts)
    ELSE /\ tasks' = ts
         /\ UNCHANGED <<pc, progress, results, batch_start>>

\* One attempt of check_repo_security for repos[i] returns its result.
CheckReturn(i, resp) ==
  /\ pc = "gather"
  /\ i \in DOMAIN tasks
  /\ tasks[i].state = "scheduled"
  /\ AfterResolve([tasks EXCEPT ![i] =
                     CompleteAttempt(@, check_repo_security(repos[i], resp))])
  /\ UNCHANGED <<input, cancel_requested, cancel_reason, repos, fetchTask,
                 report, queryResult, cancelPhases,
                 cancelRepeated, cpVars, wire>>

\* One attempt of check_repo_security for repos[i] raises.
CheckFail(i, errType) ==
  /\ pc = "gather"
  /\ i \in DOMAIN tasks
  /\ tasks[i].state = "scheduled"
  /\ AfterResolve([tasks EXCEPT ![i] = FailAttempt(@, errType)])
  /\ UNCHANGED <<input, cancel_requested, cancel_reason, repos, fetchTask,
                 report, queryResult, cancelPhases,
                 cancelRepeated, cpVars, wire>>

\* EnrichReport that goes by the status the loop left instead of the flag.
EnrichReport_ByStatus(rep) ==
  IF progress.status = "cancelled"
    THEN [base |-> rep, cancelled |-> TRUE, cancel_reason |-> cancel_reason,
          repos_scanned_before_cancel |-> progress.scanned_repos]
    ELSE [base |-> rep, cancelled |-> FALSE]

\* The report as run() returns it: the result of generate_report, with the
\* cancellation metadata when the flag is set.
EnrichReport(rep) ==
  IF cancel_requested
    THEN [base |-> rep, cancelled |-> TRUE, cancel_reason |-> cancel_reason,
          repos_scanned_before_cancel |-> progress.scanned_repos]
    ELSE [base |-> rep, cancelled |-> FALSE]

\* A drain that never waits.
all_handlers_finished_Unchecked == handlers \subseteq handlers

\* workflow.all_handlers_finished: no handler execution is in progress.
all_handlers_finished == handlers = {}

\* ReportReturn that reports on nothing once the scan was cancelled.
ReportReturn_DropOnCancel ==
  /\ pc = "report"
  /\ all_handlers_finished
  /\ report' = EnrichReport(generate_report(input.org,
                                            IF cancel_requested THEN <<>> ELSE results))
  /\ pc' = "done"
  /\ UNCHANGED <<input, progress, results, cancel_requested, cancel_reason,
                 repos, batch_start, fetchTask, tasks, queryResult, cancelPhases,
                 cancelRepeated, cpVars, wire>>

\* generate_report returns: run() adds the cancellation metadata, waits until
\* no handler is in progress (cancel_scan never awaits, so none of its
\* executions ever is) and returns the report.
ReportReturn ==
  /\ pc = "report"
  /\ all_handlers_finished
  /\ report' = EnrichReport(generate_report(input.org, results))
  /\ pc' = "done"
  /\ UNCHANGED <<input, progress, results, cancel_requested, cancel_reason,
                 repos, batch_start, fetchTask, tasks, queryResult, cancelPhases,
                 cancelRepeated, cpVars, wire>>

\* cancel_scan that stops the scan itself instead of leaving it to the loop.
cancel_scan_Preempt(reason) ==
  /\ pc \notin {"done", "failed"}
  /\ cancel_requested' = TRUE
  /\ cancel_reason' = reason
  /\ cancelPhases' = cancelPhases \cup {pc}
  /\ cancelRepeated' = (cancelRepeated \/ (cancel_requested /\ cancel_reason = reason))
  /\ IF pc = "gather"
       THEN /\ progress' = [progress EXCEPT !.status = "cancelled"]
            /\ pc' = "report"
       ELSE UNCHANGED <<pc, progress>>
  /\ UNCHANGED <<input, results, repos, batch_start, fetchTask, tasks, report,
                 queryResult, cpVars, wire>>

\* cancel_scan that marks the scan cancelled itself, whatever its status.
cancel_scan_MarksCancelled(reason) ==
  /\ pc \notin {"done", "failed"}
  /\ cancel_requested' = TRUE
  /\ cancel_reason' = reason
  /\ cancelPhases' = cancelPhases \cup {pc}
  /\ cancelRepeated' = (cancelRepeated \/ (cancel_requested /\ cancel_reason = reason))
  /\ progress' = [progress EXCEPT !.status = "cancelled"]
  /\ UNCHANGED <<pc, input, results, repos, batch_start, fetchTask, tasks, report,
                 queryResult, cpVars, wire>>

\* cancel_scan that also drops what was recorded so far.
cancel_scan_ClearsResults(reason) ==
  /\ pc \notin {"done", "failed"}
  /\ cancel_requested' = TRUE
  /\ cancel_reason' = reason
  /\ cancelPhases' = cancelPhases \cup {pc}
  /\ cancelRepeated' = (cancelRepeated \/ (cancel_requested /\ cancel_reason = reason))
  /\ results' = <<>>
  /\ UNCHANGED <<pc, input, progress, repos, batch_start, fetchTask, tasks, report,
                 queryResult, cpVars, wire>>

\* cancel_scan that withdraws a pending request when it is delivered again.
cancel_scan_Toggle(reason) ==
  /\ pc \notin {"done", "failed"}
  /\ cancel_requested' = ~cancel_requested
  /\ cancel_reason' = reason
  /\ cancelPhases' = cancelPhases \cup {pc}
  /\ cancelRepeated' = (cancelRepeated \/ (cancel_requested /\ cancel_reason = reason))
  /\ UNCHANGED <<pc, input, progress, results, repos, batch_start, fetchTask,
                 tasks, report, queryResult, cpVars, wire>>

\* Signal cancel_scan(reason), delivered while the workflow is open.
cancel_scan(reason) ==
  /\ pc \notin {"done", "failed"}
  /\ cancel_requested' = TRUE
  /\ cancel_reason' = reason
  /\ cancelPhases' = cancelPhases \cup {pc}
  /\ cancelRepeated' = (cancelRepeated \/ (cancel_requested /\ cancel_reason = reason))
  /\ UNCHANGED <<pc, input, progress, results, repos, batch_start, fetchTask,
                 tasks, report, queryResult, cpVars, wire>>

\* Query progress().
QueryProgress ==
  /\ queryResult' = [query |-> "progress", value |-> progress]
  /\ UNCHANGED <<wfVars, cancelPhases,
                 cancelRepeated, cpVars, wire>>

\* results_so_far() that hands the recorded results over and empties the list.
QueryResultsSoFar_Drain ==
  /\ queryResult' = [query |-> "results_so_far", value |-> results]
  /\ results' = <<>>
  /\ UNCHANGED <<pc, input, progress, cancel_requested, cancel_reason, repos,
                 batch_start, fetchTask, tasks, report, cancelPhases,
                 cancelRepeated, cpVars, wire>>

\* Query results_so_far().
QueryResultsSoFar ==
  /\ queryResult' = [query |-> "results_so_far", value |-> results]
  /\ UNCHANGED <<wfVars, cancelPhases,
                 cancelRepeated, cpVars, wire>>

\* Query is_cancelled().
QueryIsCancelled ==
  /\ queryResult' = [query |-> "is_cancelled", value |-> cancel_requested]
  /\ UNCHANGED <<wfVars, cancelPhases,
                 cancelRepeated, cpVars, wire>>

Next ==
  \/ RunStart
  \/ \E resp \in FetchResponses : FetchFail(resp)
  \/ \E resp \in FetchResponses : FetchReturn(resp)
  \/ \E i \in 1..MaxRepos, resp \in CheckResponses : CheckReturn(i, resp)
  \/ \E i \in 1..MaxRepos, e \in CheckErrors : CheckFail(i, e)
  \/ ReportReturn
  \/ \E reason \in Reasons : cancel_scan(reason)
  \/ QueryProgress
  \/ QueryResultsSoFar
  \/ QueryIsCancelled

Spec == Init /\ [][Next]_vars

\* Every step that is the substrate's to take: starting the run, resolving an
\* attempt of a dispatched activity (a result, a retry or the final failure),
\* returning the report.
ActivityResolves ==
  \/ RunStart
  \/ \E resp \in FetchResponses : FetchFail(resp)
  \/ \E resp \in FetchResponses : FetchReturn(resp)
  \/ \E i \in 1..MaxRepos, resp \in CheckResponses : CheckReturn(i, resp)
  \/ \E i \in 1..MaxRepos, e \in CheckErrors : CheckFail(i, e)
  \/ ReportReturn

\* The run under the assumption that every dispatched activity eventually
\* resolves; signals and queries arrive at any time, any number of times.
SpecLive == Init /\ [][Next]_vars /\ WF_vars(ActivityResolves)

\* ------------------------------------------------- control plane (spec 4.1, 4.3)
\* The orchestrator with pause and batch-size reconfiguration. The workflow
\* that handles pause_scan and update_batch_size is called by
\* temporal/starter.py and demo_runner.py; its loop and handlers are modelled
\* here from sections 4.1 and 4.3 of the specification.

\* Calls of pause_scan and update_batch_size delivered to one run, in the model.
MaxCalls == 2

\* The check outcomes and the cancel reason of the runs of this specification.
CheckResponsesCP == {r \in CheckResponses : r.dependabot = 204}
ReasonsCP == {"r1"}

\* batchSize bounds (spec 3: 1..50)
MIN_BATCH_SIZE == 1
MAX_BATCH_SIZE == 50

\* Arguments of update_batch_size and pause_scan.
BatchSizeInputs == {0, 1, 50, 51}
PauseDurations == {0, 5}

TerminalStatuses == {"completed", "cancelled", "failed"}

\* What the caller of an update gets back.
Rejected(msg) == [error |-> msg]
Confirmation(n) == [ok |-> n]

\* A validator that checks the lower bound of n only.
update_batch_size_validator_NoUpper(n) ==
  IF n < MIN_BATCH_SIZE
    THEN "Batch size must be between 1 and 50"
  ELSE IF progress.status \in TerminalStatuses
    THEN "Cannot update batch size of a finished scan"
  ELSE ""

\* The validator of update_batch_size: the rejection for n in the current
\* state, or "" when n is accepted.
update_batch_size_validator(n) ==
  IF n < MIN_BATCH_SIZE \/ n > MAX_BATCH_SIZE
    THEN "Batch size must be between 1 and 50"
  ELSE IF progress.status \in TerminalStatuses
    THEN "Cannot update batch size of a finished scan"
  ELSE ""

\* A batch of the size the scan started with, whatever batchSize is now.
BatchCP_InitialSize(rs, b) == (b + 1)..Min(b + BATCH_SIZE, Len(rs))

\* The next batchSize resources from offset b, as indices of the list.
BatchCP(rs, b) == (b + 1)..Min(b + batch_size, Len(rs))

\* The batch in flight: what was dispatched beyond the offset.
InFlightBatch(ts) == (batch_start + 1)..Cardinality(DOMAIN ts)

\* Step 4 of the main loop: dispatch the next batch.
DispatchCP(rs, b, prog, ts) ==
  /\ progress' = prog
  /\ batch_start' = b
  /\ tasks' = [i \in DOMAIN ts \cup BatchCP(rs, b) |->
                 IF i \in BatchCP(rs, b) THEN Scheduled ELSE ts[i]]
  /\ pc' = "gather"

\* The main loop from its head at offset b up to its next suspension: the
\* report (list used up, or cancel requested), the pause timer, or the batch
\* it dispatches.
LoopHeadCP(rs, b, prog, ts) ==
  IF b >= Len(rs)
    THEN /\ progress' = [prog EXCEPT !.status = "completed"]
         /\ batch_start' = b /\ tasks' = ts /\ pc' = "report"
         /\ UNCHANGED timer_active
  ELSE IF cancel_requested
    THEN /\ progress' = [prog EXCEPT !.status = "cancelled"]
         /\ batch_start' = b /\ tasks' = ts /\ pc' = "report"
         /\ UNCHANGED timer_active
  ELSE IF pause_requested
    THEN /\ progress' = [prog EXCEPT !.status = "paused"]
         /\ batch_start' = b /\ tasks' = ts /\ pc' = "paused"
         /\ timer_active' = TRUE
    ELSE /\ DispatchCP(rs, b, prog, ts)
         /\ UNCHANGED timer_active

\* The resource list arrives: the loop is entered.
FetchReturnCP(resp) ==
  /\ pc = "fetch"
  /\ fetchTask.state = "scheduled"
  /\ "return" \in DOMAIN fetch_org_repos(resp)
  /\ LET rs == fetch_org_repos(resp).return IN
       /\ fetchTask' = CompleteAttempt(fetchTask, Len(rs))
       /\ repos' = rs
       /\ LoopHeadCP(rs, 0,
                     [progress EXCEPT !.total_repos = Len(rs), !.status = "scanning"],
                     tasks)
  /\ UNCHANGED <<input, results, cancel_requested, cancel_reason, report,
                 queryResult, cancelPhases, cancelRepeated, batch_size,
                 pause_requested, pause_duration_seconds, handlers, updateResult,
                 calls,
                 checkpoint, wire>>

\* The Batch Executor after one check resolved: it returns once no item of the
\* batch is pending; the results are merged, the offset advanced past the
\* batch, and the loop goes on.
AfterResolveCP(ts) ==
  IF GatherDone(ts, InFlightBatch(ts))
    THEN LET batch_results ==
               [k \in 1..Cardinality(InFlightBatch(ts)) |-> ts[batch_start + k].value]
             st == MergeBatch([progress |-> progress, results |-> results],
                              batch_results)
         IN /\ results' = st.results
            /\ LoopHeadCP(repos, Cardinality(DOMAIN ts), st.progress, ts)
    ELSE /\ tasks' = ts
         /\ UNCHANGED <<pc, progress, results, batch_start, timer_active>>

\* A check of the batch in flight returns its result.
CheckReturnCP(i, resp) ==
  /\ pc = "gather"
  /\ i \in DOMAIN tasks
  /\ tasks[i].state = "scheduled"
  /\ AfterResolveCP([tasks EXCEPT ![i] =
                       CompleteAttempt(@, check_repo_security(repos[i], resp))])
  /\ UNCHANGED <<input, cancel_requested, cancel_reason, repos, fetchTask,
                 report, queryResult, cancelPhases, cancelRepeated, batch_size,
                 pause_requested, pause_duration_seconds, handlers, updateResult,
                 calls,
                 checkpoint, wire>>

\* A check whose retries are used up: the item resolves as a failure.
GaveUp(errType) ==
  [state |-> "failed", attempts |-> maximum_attempts,
   wait |-> RetryInterval(maximum_attempts - 1), lastError |-> errType,
   value |-> [exception |-> errType]]

CheckGaveUpCP(i, errType) ==
  /\ pc = "gather"
  /\ i \in DOMAIN tasks
  /\ tasks[i].state = "scheduled"
  /\ AfterResolveCP([tasks EXCEPT ![i] = GaveUp(errType)])
  /\ UNCHANGED <<input, cancel_requested, cancel_reason, repos, fetchTask,
                 report, queryResult, cancelPhases, cancelRepeated, batch_size,
                 pause_requested, pause_duration_seconds, handlers, updateResult,
                 calls,
                 checkpoint, wire>>

\* TimerFires that leaves the pause flag set.
TimerFires_FlagKept ==
  /\ pc = "paused"
  /\ timer_active
  /\ timer_active' = FALSE
  /\ DispatchCP(repos, batch_start, [progress EXCEPT !.status = "scanning"], tasks)
  /\ UNCHANGED <<input, results, cancel_requested, cancel_reason, repos,
                 fetchTask, report, queryResult, cancelPhases, cancelRepeated,
                 batch_size, pause_requested, pause_duration_seconds, handlers,
                 updateResult, calls,
                 checkpoint, wire>>

\* The pause timer fires: the pause flag is cleared, the status is scanning
\* again, and the loop goes on to its next batch.
TimerFires ==
  /\ pc = "paused"
  /\ timer_active
  /\ timer_active' = FALSE
  /\ pause_requested' = FALSE
  /\ DispatchCP(repos, batch_start, [progress EXCEPT !.status = "scanning"], tasks)
  /\ UNCHANGED <<input, results, cancel_requested, cancel_reason, repos,
                 fetchTask, report, queryResult, cancelPhases, cancelRepeated,
                 batch_size, pause_duration_seconds, handlers, updateResult,
                 calls,
                 checkpoint, wire>>

\* Signal pause_scan(duration_seconds).
pause_scan(duration_seconds) ==
  /\ pc \notin {"done", "failed"}
  /\ calls < MaxCalls
  /\ calls' = calls + 1
  /\ pause_requested' = TRUE
  /\ pause_duration_seconds' = IF duration_seconds < 1 THEN 1 ELSE duration_seconds
  /\ UNCHANGED <<wfVars, queryResult, cancelPhases, cancelRepeated, batch_size,
                 timer_active, handlers, updateResult,
                 checkpoint, wire>>

\* Update update_batch_size(n) arrives: the validator runs; a rejected update
\* returns its error to the caller, an accepted one is handed to the handler.
UpdateAdmitted(n) ==
  /\ pc \notin {"done", "failed"}
  /\ calls < MaxCalls
  /\ calls' = calls + 1
  /\ IF update_batch_size_validator(n) # ""
       THEN /\ updateResult' = Rejected(update_batch_size_validator(n))
            /\ UNCHANGED handlers
       ELSE /\ handlers' = handlers \cup {[update |-> "update_batch_size",
                                            arg |-> n, id |-> calls + 1]}
            /\ updateResult' = NoUpdate
  /\ UNCHANGED <<wfVars, queryResult, cancelPhases, cancelRepeated, batch_size,
                 pause_requested, pause_duration_seconds, timer_active,
                 checkpoint, wire>>

\* The handler of an accepted update_batch_size(n): batchSize is set and the
\* confirmation returned to the caller.
update_batch_size(h) ==
  /\ h \in handlers
  /\ batch_size' = h.arg
  /\ handlers' = handlers \ {h}
  /\ updateResult' = Confirmation(h.arg)
  /\ UNCHANGED <<wfVars, queryResult, cancelPhases, cancelRepeated,
                 pause_requested, pause_duration_seconds, timer_active, calls,
                 checkpoint, wire>>

NextCP ==
  \/ RunStart
  \/ \E resp \in FetchResponses : FetchReturnCP(resp)
  \/ \E i \in 1..MaxRepos, resp \in CheckResponsesCP : CheckReturnCP(i, resp)
  \/ \E i \in 1..MaxRepos, e \in CheckErrors : CheckGaveUpCP(i, e)
  \/ TimerFires
  \/ ReportReturn
  \/ \E reason \in ReasonsCP : cancel_scan(reason)
  \/ \E d \in PauseDurations : pause_scan(d)
  \/ \E n \in BatchSizeInputs : UpdateAdmitted(n)
  \/ \E h \in handlers : update_batch_size(h)

\* The substrate fires a timer it has started.
SpecCP == Init /\ [][NextCP]_vars /\ WF_vars(TimerFires)

\* ------------------------------------------- continuation (spec 4.1 step 3, 4.5)
\* The orchestrator with checkpoint and restart. The final report of the runs
\* that continued is read by temporal/starter.py (_print_report) and
\* demo_runner.py (act_9) as result["continue_as_new_count"]; the Checkpoint
\* Manager itself is modelled here from sections 3, 4.1 and 4.5 of the
\* specification. `tasks` and `fetchTask` are the checks of the logical scan,
\* over all its physical runs.

\* Work units a run may accumulate before it hands off: the start of the run
\* and each check it has dispatched count one unit.
MaxHistory == 1

\* Arguments of update_batch_size in the runs of this specification.
BatchSizeInputsCAN == {1, 3}

\* continuationCount of the run: how many hand-offs led to it.
continuation_count(cp) ==
  IF cp = NoCheckpoint THEN 0 ELSE cp.continuationCount

\* The offset at which the run seeded from `cp` started.
RunOffset(cp) == IF cp = NoCheckpoint THEN 0 ELSE cp.offset

\* The size proxy at offset b of the run seeded from `cp`.
HistoryLength(b, cp) == 1 + (b - RunOffset(cp))

\* A checkpoint that counts the resources from the start of the last batch as
\* remaining.
BuildCheckpoint_FromLastBatch(rs, b, res, cp) ==
  [results |-> res,
   remainingResources |-> SubSeq(rs, Min(batch_start, b) + 1, Len(rs)),
   offset |-> Min(batch_start, b),
   batchSize |-> batch_size,
   continuationCount |-> continuation_count(cp) + 1]

\* A checkpoint that leaves the results behind.
BuildCheckpoint_NoResults(rs, b, res, cp) ==
  [results |-> <<>>,
   remainingResources |-> SubSeq(rs, b + 1, Len(rs)),
   offset |-> b,
   batchSize |-> batch_size,
   continuationCount |-> continuation_count(cp) + 1]

\* The Checkpoint built at offset b of the list rs with the results res, by
\* the run seeded from `cp`.
BuildCheckpoint(rs, b, res, cp) ==
  [results |-> res,
   remainingResources |-> SubSeq(rs, b + 1, Len(rs)),
   offset |-> b,
   batchSize |-> batch_size,
   continuationCount |-> continuation_count(cp) + 1]

\* The main loop with step 3: at offset b, with work left and neither cancel
\* nor pause requested, a run whose size proxy exceeds the threshold builds
\* the Checkpoint and ends; else the loop goes on as in steps 1, 2 and 4.
LoopHeadCAN(rs, b, prog, ts, res, cp) ==
  IF /\ b < Len(rs) /\ ~cancel_requested /\ ~pause_requested
     /\ HistoryLength(b, cp) > MaxHistory
    THEN /\ checkpoint' = BuildCheckpoint(rs, b, res, cp)
         /\ progress' = prog
         /\ batch_start' = b /\ tasks' = ts /\ pc' = "continued"
         /\ UNCHANGED timer_active
    ELSE /\ LoopHeadCP(rs, b, prog, ts)
         /\ checkpoint' = cp

\* The resource list arrives: the loop is entered.
FetchReturnCAN(resp) ==
  /\ pc = "fetch"
  /\ fetchTask.state = "scheduled"
  /\ "return" \in DOMAIN fetch_org_repos(resp)
  /\ LET rs == fetch_org_repos(resp).return IN
       /\ fetchTask' = CompleteAttempt(fetchTask, Len(rs))
       /\ repos' = rs
       /\ LoopHeadCAN(rs, 0,
                      [progress EXCEPT !.total_repos = Len(rs), !.status = "scanning"],
                      tasks, results, checkpoint)
  /\ UNCHANGED <<input, results, cancel_requested, cancel_reason, report,
                 queryResult, cancelPhases, cancelRepeated, batch_size,
                 pause_requested, pause_duration_seconds, handlers, updateResult,
                 calls, wire>>

\* The Batch Executor after one check resolved, in the loop with step 3.
AfterResolveCAN(ts) ==
  IF GatherDone(ts, InFlightBatch(ts))
    THEN LET batch_results ==
               [k \in 1..Cardinality(InFlightBatch(ts)) |-> ts[batch_start + k].value]
             st == MergeBatch([progress |-> progress, results |-> results],
                              batch_results)
         IN /\ results' = st.results
            /\ LoopHeadCAN(repos, Cardinality(DOMAIN ts), st.progress, ts,
                           st.results, checkpoint)
    ELSE /\ tasks' = ts
         /\ UNCHANGED <<pc, progress, results, batch_start, timer_active,
                        checkpoint, wire>>

CheckReturnCAN(i, resp) ==
  /\ pc = "gather"
  /\ i \in DOMAIN tasks
  /\ tasks[i].state = "scheduled"
  /\ AfterResolveCAN([tasks EXCEPT ![i] =
                        CompleteAttempt(@, check_repo_security(repos[i], resp))])
  /\ UNCHANGED <<input, cancel_requested, cancel_reason, repos, fetchTask,
                 report, queryResult, cancelPhases, cancelRepeated, batch_size,
                 pause_requested, pause_duration_seconds, handlers, updateResult,
                 calls, wire>>

CheckGaveUpCAN(i, errType) ==
  /\ pc = "gather"
  /\ i \in DOMAIN tasks
  /\ tasks[i].state = "scheduled"
  /\ AfterResolveCAN([tasks EXCEPT ![i] = GaveUp(errType)])
  /\ UNCHANGED <<input, cancel_requested, cancel_reason, repos, fetchTask,
                 report, queryResult, cancelPhases, cancelRepeated, batch_size,
                 pause_requested, pause_duration_seconds, handlers, updateResult,
                 calls, wire>>

\* The resource list of a run seeded from `cp`: the resources before the
\* offset are not among its data.
RestoredResources(cp) ==
  [i \in 1..(cp.offset + Len(cp.remainingResources)) |->
     IF i > cp.offset THEN cp.remainingResources[i - cp.offset] ELSE 0]

\* The ScanState of a run seeded from `cp`.
RestoredProgress(org, cp) ==
  LET compliant ==
        Cardinality({i \in DOMAIN cp.results : is_fully_compliant(cp.results[i])})
  IN [org |-> org,
      total_repos |-> cp.offset + Len(cp.remainingResources),
      scanned_repos |-> Len(cp.results),
      compliant_repos |-> compliant,
      non_compliant_repos |-> Len(cp.results) - compliant,
      errors |-> cp.offset - Len(cp.results),
      status |-> "scanning"]

\* The fresh run starts from the Checkpoint: its state is restored and the
\* loop entered at the offset of the Checkpoint.
RestartFromCheckpoint ==
  /\ pc = "continued"
  /\ LET cp == checkpoint IN
       /\ repos' = RestoredResources(cp)
       /\ results' = cp.results
       /\ batch_size' = cp.batchSize
       /\ LoopHeadCAN(RestoredResources(cp), cp.offset,
                      RestoredProgress(input.org, cp), tasks, cp.results, cp)
  /\ UNCHANGED <<input, cancel_requested, cancel_reason, fetchTask, report,
                 queryResult, cancelPhases, cancelRepeated, pause_requested,
                 pause_duration_seconds, handlers, updateResult, calls, wire>>

\* The final report of a run: the report with its cancellation metadata and
\* the number of continuations behind the run.
FinalReport(rep, cp) ==
  [f \in DOMAIN rep \cup {"continue_as_new_count"} |->
     IF f = "continue_as_new_count" THEN continuation_count(cp) ELSE rep[f]]

\* generate_report returns in the last run of the scan.
ReportReturnCAN ==
  /\ pc = "report"
  /\ all_handlers_finished
  /\ report' = FinalReport(EnrichReport(generate_report(input.org, results)),
                           checkpoint)
  /\ pc' = "done"
  /\ UNCHANGED <<input, progress, results, cancel_requested, cancel_reason,
                 repos, batch_start, fetchTask, tasks, queryResult, cancelPhases,
                 cancelRepeated, cpVars, wire>>

\* Calls from outside are delivered to the run that is executing: the hand-off
\* to the fresh run is one step of the substrate.
NextCAN ==
  \/ RunStart
  \/ \E resp \in FetchResponses : FetchReturnCAN(resp)
  \/ \E i \in 1..MaxRepos, resp \in CheckResponsesCP : CheckReturnCAN(i, resp)
  \/ \E i \in 1..MaxRepos, e \in CheckErrors : CheckGaveUpCAN(i, e)
  \/ RestartFromCheckpoint
  \/ ReportReturnCAN
  \/ \E reason \in ReasonsCP : pc # "continued" /\ cancel_scan(reason)
  \/ \E n \in BatchSizeInputsCAN : pc # "continued" /\ UpdateAdmitted(n)
  \/ \E h \in handlers : pc # "continued" /\ update_batch_size(h)

SpecCAN == Init /\ [][NextCAN]_vars

\* --------------------------------------- aggregation and report on any batch
\* The merge loop of run(), is_fully_compliant and generate_report, applied to
\* the outcomes of one batch drawn from every sub-status and merged in every
\* order of the batch.

\* Items of the batches of this specification.
MaxOutcomes == 3

ERROR_STATUS == "error"
SecurityStatus ==
  {ENABLED_STATUS, DISABLED, NOT_CONFIGURED, NO_ACCESS, UNKNOWN, ERROR_STATUS}

\* RepoSecurityResult(repository, secret_scanning, dependabot_alerts,
\* code_scanning, error)
ResultOf(repository, s, d, c, error) ==
  [repository |-> repository, secret_scanning |-> s, dependabot_alerts |-> d,
   code_scanning |-> c, error |-> error]

\* What one check of a batch resolves to: a result of the kinds the tests use
\* (compliant, partial, default, not found, no access, compliant with an
\* error), or the exception of a check that gave up.
OutcomesOf(repository) ==
  { CompleteAttempt(Scheduled, r) : r \in
      { ResultOf(repository, ENABLED_STATUS, ENABLED_STATUS, ENABLED_STATUS, "None"),
        ResultOf(repository, ENABLED_STATUS, DISABLED, ENABLED_STATUS, "None"),
        RepoSecurityResult(repository),
        [RepoSecurityResult(repository) EXCEPT !.error = "Repository not found"],
        ResultOf(repository, ENABLED_STATUS, ENABLED_STATUS, NO_ACCESS, "None"),
        ResultOf(repository, ENABLED_STATUS, ENABLED_STATUS, ENABLED_STATUS,
                 "Repository not found") } }
    \cup {GaveUp(e) : e \in CheckErrors}

\* The batches: one check with any three sub-statuses, or up to MaxOutcomes
\* checks with the outcomes above.
BatchOutcomes ==
  { <<CompleteAttempt(Scheduled, ResultOf(1, s, d, c, "None"))>> :
      s \in SecurityStatus, d \in SecurityStatus, c \in SecurityStatus }
    \cup UNION { {ts \in [1..n -> UNION {OutcomesOf(i) : i \in 1..n}] :
                    \A i \in 1..n : ts[i] \in OutcomesOf(i)} : n \in 0..MaxOutcomes }

\* The credentials of the runs of this specification.
TokensFn == Tokens \cup {"ghp_b"}

\* The orders in which the n checks of a batch can be merged.
Orders(n) == {p \in [1..n -> 1..n] : \A i, j \in 1..n : p[i] = p[j] => i = j}

InitFn ==
  /\ pc = "gather"
  /\ \E org \in Orgs, token \in TokensFn : input = [org |-> org, token |-> token]
  /\ tasks \in BatchOutcomes
  /\ progress = [ScanProgress(input.org, "scanning") EXCEPT !.total_repos = Len(tasks)]
  /\ repos = [i \in 1..Len(tasks) |-> i]
  /\ results = <<>>
  /\ cancel_requested = FALSE
  /\ cancel_reason = ""
  /\ batch_start = 0
  /\ fetchTask = CompleteAttempt(Scheduled, Len(tasks))
  /\ report = NoReport
  /\ queryResult = NoQuery
  /\ cancelPhases = {}
  /\ cancelRepeated = FALSE
  /\ batch_size = BATCH_SIZE
  /\ pause_requested = FALSE
  /\ pause_duration_seconds = 0
  /\ timer_active = FALSE
  /\ handlers = {}
  /\ updateResult = NoUpdate
  /\ calls = 0
  /\ checkpoint = NoCheckpoint
  /\ wire = NoWire

\* The loop `for result in batch_results` over the batch in the order p.
MergeApplied(p) ==
  /\ pc = "gather"
  /\ LET batch_results == [k \in 1..Len(tasks) |-> tasks[p[k]].value]
         st == MergeBatch([progress |-> progress, results |-> results],
                          batch_results)
     IN /\ progress' = st.progress
        /\ results' = st.results
  /\ pc' = "merged"
  /\ UNCHANGED <<input, cancel_requested, cancel_reason, repos, batch_start,
                 fetchTask, tasks, report, queryResult, cancelPhases,
                 cancelRepeated, cpVars, wire>>

\* r.is_fully_compliant of each recorded result.
ComplianceApplied ==
  /\ pc = "merged"
  /\ queryResult' = [k \in DOMAIN results |-> is_fully_compliant(results[k])]
  /\ pc' = "classified"
  /\ UNCHANGED <<input, progress, results, cancel_requested, cancel_reason,
                 repos, batch_start, fetchTask, tasks, report, cancelPhases,
                 cancelRepeated, cpVars, wire>>

\* generate_report on the recorded results.
ReportApplied ==
  /\ pc = "merged"
  /\ report' = generate_report(input.org, results)
  /\ pc' = "reported"
  /\ UNCHANGED <<input, progress, results, cancel_requested, cancel_reason,
                 repos, batch_start, fetchTask, tasks, queryResult, cancelPhases,
                 cancelRepeated, cpVars, wire>>

NextFn ==
  \/ \E p \in Orders(Len(tasks)) : MergeApplied(p)
  \/ ComplianceApplied
  \/ ReportApplied

SpecFn == InitFn /\ [][NextFn]_vars

\* ------------------------------------------------------- payload encryption
\* EncryptionCodec (temporal/encryption.py) on lists of payloads. Fernet is
\* taken as authenticated encryption: a token is opened by the key that made
\* it and by no other; the serialized form of a payload is parsed back to it.

\* Payloads in the lists of this specification.
MaxPayloads == 2

ENCODING_KEY == "binary/encrypted"

Keys == {"key1", "key2"}
IVs == {1, 2}

\* Payload(metadata, data)
Payload(metadata, data) == [metadata |-> metadata, data |-> data]

\* p.metadata.get("encoding")
EncodingOf(p) ==
  IF "encoding" \in DOMAIN p.metadata THEN p.metadata.encoding ELSE "None"

\* The payloads given to the codec: JSON and binary payloads, a payload
\* without metadata, and a plain payload that carries the marker of the codec.
PlainPayloads ==
  { Payload([encoding |-> e], [bytes |-> d]) :
      e \in {"json/plain", "binary/plain", ENCODING_KEY}, d \in {"d1", "d2"} }
    \cup { Payload(<<>>, [bytes |-> "d1"]) }

\* p.SerializeToString() and Payload.ParseFromString
SerializeToString(p) == [serialized |-> p]
ParseFromString(b) == b.serialized

\* Fernet(key).encrypt(b), with the initialisation vector it draws.
fernet_encrypt(key, iv, b) == [fernet |-> key, iv |-> iv, plaintext |-> b]

\* Fernet(key).decrypt(t): the plaintext, or InvalidToken for what is not a
\* token of this key.
fernet_decrypt(key, t) ==
  IF "fernet" \in DOMAIN t /\ t.fernet = key
    THEN [return |-> t.plaintext]
    ELSE [raise |-> "InvalidToken"]

\* encode that keeps the metadata of the payload it encrypts.
encode_KeepsMetadata(key, ivs, ps) ==
  [i \in 1..Len(ps) |->
     Payload(ps[i].metadata, fernet_encrypt(key, ivs[i], SerializeToString(ps[i])))]

\* EncryptionCodec.encode
encode(key, ivs, ps) ==
  [i \in 1..Len(ps) |->
     Payload([encoding |-> ENCODING_KEY],
             fernet_encrypt(key, ivs[i], SerializeToString(ps[i])))]

\* One payload of decode: decrypted if it carries the marker, else as it is.
DecodeOne(key, p) ==
  IF EncodingOf(p) = ENCODING_KEY
    THEN LET d == fernet_decrypt(key, p.data)
         IN IF "raise" \in DOMAIN d THEN d
            ELSE [return |-> ParseFromString(d.return)]
    ELSE [return |-> p]

\* EncryptionCodec.decode: the list, or the exception of the first payload
\* that does not decrypt.
decode(key, ps) ==
  IF \E i \in 1..Len(ps) : "raise" \in DOMAIN DecodeOne(key, ps[i])
    THEN [raise |-> "InvalidToken"]
    ELSE [return |-> [i \in 1..Len(ps) |-> DecodeOne(key, ps[i]).return]]

NotYet == [pending |-> TRUE]

InitCodec ==
  /\ pc = "plain"
  /\ \E key \in Keys, n \in 0..MaxPayloads :
       \E ps \in [1..n -> PlainPayloads] :
         wire = [key |-> key, payloads |-> ps, encoded |-> NotYet,
                 decodedWith |-> "", decoded |-> NotYet]
  /\ input = NoInput
  /\ progress = ScanProgress("", "starting")
  /\ results = <<>>
  /\ cancel_requested = FALSE
  /\ cancel_reason = ""
  /\ repos = <<>>
  /\ batch_start = 0
  /\ fetchTask = NotScheduled
  /\ tasks = <<>>
  /\ report = NoReport
  /\ queryResult = NoQuery
  /\ cancelPhases = {}
  /\ cancelRepeated = FALSE
  /\ batch_size = BATCH_SIZE
  /\ pause_requested = FALSE
  /\ pause_duration_seconds = 0
  /\ timer_active = FALSE
  /\ handlers = {}
  /\ updateResult = NoUpdate
  /\ calls = 0
  /\ checkpoint = NoCheckpoint

\* codec.encode(payloads) with the key of the codec.
EncodeApplied(ivs) ==
  /\ pc = "plain"
  /\ ivs \in [1..Len(wire.payloads) -> IVs]
  /\ wire' = [wire EXCEPT !.encoded = encode(wire.key, ivs, wire.payloads)]
  /\ pc' = "encoded"
  /\ UNCHANGED <<input, progress, results, cancel_requested, cancel_reason,
                 repos, batch_start, fetchTask, tasks, report, queryResult,
                 cancelPhases, cancelRepeated, cpVars>>

\* codec.decode(encoded) by a codec with the key `key`.
DecodeApplied(key) ==
  /\ pc = "encoded"
  /\ wire' = [wire EXCEPT !.decodedWith = key,
                          !.decoded = decode(key, wire.encoded)]
  /\ pc' = "decoded"
  /\ UNCHANGED <<input, progress, results, cancel_requested, cancel_reason,
                 repos, batch_start, fetchTask, tasks, report, queryResult,
                 cancelPhases, cancelRepeated, cpVars>>

NextCodec ==
  \/ \E ivs \in [1..Len(wire.payloads) -> IVs] : EncodeApplied(ivs)
  \/ \E key \in Keys : DecodeApplied(key)

SpecCodec == InitCodec /\ [][NextCodec]_vars

\* ================================================================ claims
InFlight == {i \in DOMAIN tasks : tasks[i].state = "scheduled"}
Completed == {i \in DOMAIN tasks : tasks[i].state = "completed"}
Failed == {i \in DOMAIN tasks : tasks[i].state = "failed"}

\* C1: in every reachable state, and in every answer progress() gave,
\* scanned_repos = compliant_repos + non_compliant_repos and
\* scanned_repos + errors <= total_repos.
CountersConsistent(p) ==
  /\ p.scanned_repos = p.compliant_repos + p.non_compliant_repos
  /\ p.scanned_repos + p.errors <= p.total_repos

C1_CounterInvariant ==
  /\ CountersConsistent(progress)
  /\ queryResult.query = "progress" => CountersConsistent(queryResult.value)

\* A progress() answer given while a later batch is in flight, after at least
\* two items, one of them compliant, were merged.
C1_Witness ==
  /\ pc = "gather"
  /\ queryResult.query = "progress"
  /\ queryResult.value = progress
  /\ progress.compliant_repos >= 1
  /\ progress.scanned_repos + progress.errors >= 2
  /\ progress.scanned_repos + progress.errors < progress.total_repos

\* C2: cancellation is acted on at a batch boundary only: while a batch is in
\* flight the scan stays in its loop whatever the cancel flag says, and once
\* the flag has been acted on (status cancelled, or the loop left with the
\* flag set) no check is pending and every dispatched item is recorded, as a
\* result or as an error.
C2_CancelAtBoundaryOnly ==
  /\ pc = "gather" => InFlight # {} /\ progress.status = "scanning"
  /\ (progress.status = "cancelled" \/ (cancel_requested /\ pc \in {"report", "done"}))
       => /\ InFlight = {}
          /\ progress.scanned_repos = Cardinality(Completed)
          /\ progress.errors = Cardinality(Failed)
          /\ Len(results) = Cardinality(Completed)
          /\ \A i \in Completed : \E k \in 1..Len(results) : results[k] = tasks[i].value

\* A cancel arrived while the first batch was in flight; that batch was
\* merged whole and the scan then stopped, with resources left undispatched.
C2_Witness ==
  /\ "gather" \in cancelPhases
  /\ progress.status = "cancelled"
  /\ DOMAIN tasks = 1..BATCH_SIZE
  /\ Len(repos) > BATCH_SIZE
  /\ Completed # {}
  /\ Failed # {}

\* C3: a cancel delivered mid-run ends the run with status cancelled, a report
\* that carries the reason, and scanned_repos <= total_repos. Mid-run is taken
\* at its narrowest: the cancel arrived while a batch was in flight, so run()
\* had started and the scan had not finished.
C3_CancelMidRunEndsCancelled ==
  (pc = "done" /\ "gather" \in cancelPhases)
    => /\ progress.status = "cancelled"
       /\ cancel_reason \in Reasons
       /\ report # NoReport
       /\ report.cancelled
       /\ report.cancel_reason = cancel_reason
       /\ progress.scanned_repos <= progress.total_repos

\* C4: past the fetch step the run never fails; a terminal status is set only
\* on the way to the report, which is then always produced; and the report
\* run() returns is computed from every result a check returned.
AllEnabled(r) ==
  r.secret_scanning = "enabled" /\ r.dependabot_alerts = "enabled"
    /\ r.code_scanning = "enabled"

C4_ReportFromAllResults ==
  /\ fetchTask.state = "completed" => pc \in {"gather", "report", "done"}
  /\ progress.status \in {"completed", "cancelled"} => pc \in {"report", "done"}
  /\ pc = "report" => ENABLED ReportReturn
  /\ pc = "done"
       => /\ report # NoReport
          /\ progress.status \in {"completed", "cancelled"}
          /\ report.base.org = input.org
          /\ report.base.total_repos = Cardinality(Completed)
          /\ report.base.fully_compliant =
               Cardinality({i \in Completed : AllEnabled(tasks[i].value)})
          /\ report.base.errors =
               Cardinality({i \in Completed : tasks[i].value.error # "None"})

\* A cancelled run, with a failed item, that returned a report on the results
\* it had.
C4_Witness ==
  /\ pc = "done"
  /\ progress.status = "cancelled"
  /\ Failed # {}
  /\ Completed # {}
  /\ report # NoReport
  /\ report.base.total_repos = Cardinality(Completed)

\* C5: when a batch completes with failed items, errors grows by the number of
\* failed items, every other item of the batch has resolved and its result is
\* appended to the recorded results, which are otherwise untouched, and the
\* scan goes on: the run does not fail, and the next batch is dispatched
\* unless the list is used up or a cancel is pending.
C5_FaultIsolation ==
  [][pc = "gather" =>
       /\ pc' \in {"gather", "report"}
       /\ batch_start' # batch_start =>
            LET B == Batch(repos, batch_start)
                failed == {i \in B : tasks'[i].state = "failed"}
                ok == {i \in B : tasks'[i].state = "completed"}
            IN /\ failed \cup ok = B
               /\ progress'.errors = progress.errors + Cardinality(failed)
               /\ progress'.scanned_repos = progress.scanned_repos + Cardinality(ok)
               /\ Len(results') = Len(results) + Cardinality(ok)
               /\ SubSeq(results', 1, Len(results)) = results
               /\ \A i \in ok : \E k \in (Len(results) + 1)..Len(results') :
                    results'[k] = tasks'[i].value
               /\ (~cancel_requested /\ batch_start' < Len(repos))
                    => /\ pc' = "gather"
                       /\ \A i \in Batch(repos, batch_start') :
                            i \in DOMAIN tasks' /\ tasks'[i] = Scheduled
    ]_vars

\* The first batch had a failed item and an item with a result; both are
\* recorded and the second batch is in flight.
C5_Witness ==
  /\ pc = "gather"
  /\ batch_start = BATCH_SIZE
  /\ Failed \cap (1..BATCH_SIZE) # {}
  /\ Completed \cap (1..BATCH_SIZE) # {}
  /\ progress.errors = Cardinality(Failed \cap (1..BATCH_SIZE))
  /\ Len(results) = Cardinality(Completed \cap (1..BATCH_SIZE))

\* C6: all checks in flight belong to one batch, the one at batch_start, and
\* number at most BATCH_SIZE; while a batch is in flight every item of the
\* batches before it is resolved and recorded, and nothing beyond it is
\* dispatched.
BatchOf(i) == (i - 1) \div BATCH_SIZE

C6_BatchesSequential ==
  /\ Cardinality(InFlight) <= BATCH_SIZE
  /\ \A i \in InFlight : \A j \in InFlight : BatchOf(i) = BatchOf(j)
  /\ InFlight # {}
       => /\ pc = "gather"
          /\ InFlight \subseteq Batch(repos, batch_start)
          /\ DOMAIN tasks = 1..Min(batch_start + BATCH_SIZE, Len(repos))
          /\ progress.scanned_repos + progress.errors = batch_start
          /\ \A j \in 1..batch_start : tasks[j].state \in {"completed", "failed"}

\* The second batch is in flight, one of its checks resolved and one pending.
C6_Witness ==
  /\ pc = "gather"
  /\ batch_start >= BATCH_SIZE
  /\ InFlight # {}
  /\ \E i \in Batch(repos, batch_start) : tasks[i].state = "completed"

\* C7: what progress() returns counts exactly the items of the batches that
\* completed: scanned_repos + errors is the number of resolved items whose whole
\* batch has resolved, never an item of the batch in flight; an answer given
\* earlier stands at a batch boundary and never exceeds the resolved items.
C7_ProgressAtBatchBoundary ==
  LET resolved == Completed \cup Failed
      whole == {i \in resolved :
                  \A j \in 1..Len(repos) : BatchOf(j) = BatchOf(i) => j \in resolved}
  IN /\ progress.scanned_repos + progress.errors = Cardinality(whole)
     /\ progress.scanned_repos = Cardinality(whole \cap Completed)
     /\ progress.errors = Cardinality(whole \cap Failed)
     /\ queryResult.query = "progress"
          => LET n == queryResult.value.scanned_repos + queryResult.value.errors
             IN /\ n <= Cardinality(whole)
                /\ n % BATCH_SIZE = 0 \/ n = queryResult.value.total_repos

\* progress() answered while the second batch is partly resolved: the answer
\* counts the first batch only.
C7_Witness ==
  /\ pc = "gather"
  /\ batch_start >= BATCH_SIZE
  /\ InFlight # {}
  /\ \E i \in Batch(repos, batch_start) : tasks[i].state \in {"completed", "failed"}
  /\ queryResult.query = "progress"
  /\ queryResult.value = progress
  /\ progress.scanned_repos + progress.errors = batch_start

\* C8: progress(), results_so_far() and is_cancelled() can be answered in every
\* state of the run, and a step that gives an answer leaves the workflow state
\* (position, counters, status, results, flags, activities, report) as it was
\* and answers with the current value.
C8_QueriesArePureReads ==
  /\ [](ENABLED QueryProgress /\ ENABLED QueryResultsSoFar /\ ENABLED QueryIsCancelled)
  /\ [][queryResult' # queryResult
          => /\ UNCHANGED <<wfVars, cpVars, wire>>
             /\ queryResult'.value =
                  CASE queryResult'.query = "progress" -> progress
                    [] queryResult'.query = "results_so_far" -> results
                    [] queryResult'.query = "is_cancelled" -> cancel_requested
     ]_vars

\* results_so_far() answered between two resolutions of the second batch; the
\* recorded results of the first batch are still there.
C8_Witness ==
  /\ pc = "gather"
  /\ batch_start >= BATCH_SIZE
  /\ \E i \in Batch(repos, batch_start) : tasks[i].state = "completed"
  /\ InFlight # {}
  /\ queryResult.query = "results_so_far"
  /\ queryResult.value = results
  /\ results # <<>>

\* C9: a check is attempted at most 5 times; before its k-th retry the wait is
\* 2, 4, 8, 16 seconds (never above 60); a check the substrate gave up on
\* failed 5 times, does not fail the run, and once its batch is merged it is
\* counted in errors.
MergedItems == IF pc = "gather" THEN 1..batch_start ELSE DOMAIN tasks

C10_FatalFetchAborts ==
  /\ fetchTask.state = "scheduled" => fetchTask.lastError # "ValueError"
  /\ (fetchTask.state = "failed" /\ fetchTask.lastError = "ValueError")
       => /\ pc = "failed"
          /\ DOMAIN tasks = {}
          /\ results = <<>>
          /\ report = NoReport
          /\ fetchTask.wait = 0 => fetchTask.attempts = 1

\* The first fetch attempt raised ValueError and the run failed.
C10_Witness ==
  /\ pc = "failed"
  /\ fetchTask.state = "failed"
  /\ fetchTask.lastError = "ValueError"
  /\ fetchTask.attempts = 1
  /\ report = NoReport

\* C11: every failed attempt of a remote call (the fetch, a check) is treated in
\* exactly one of two ways: as fatal (the activity fails at once, whatever
\* attempts are left) or as retryable (another attempt is scheduled after a
\* backoff wait, while attempts are left). Only ValueError is fatal; every other
\* error, RuntimeError or an error the code never classifies (HTTPError), is
\* retried.
TreatedOnce(t, t2) ==
  t2.attempts = t.attempts + 1
    => LET e == t2.lastError
           fatal == t2.state = "failed" /\ t2.value = [exception |-> e]
           retried == t2.state = "scheduled" /\ t2.wait > 0 /\ t2.value = NoValue
       IN /\ e \in {"ValueError", "RuntimeError", "HTTPError"}
          /\ fatal # retried
          /\ e = "ValueError" => fatal
          /\ (e # "ValueError" /\ t2.attempts < 5) => retried

C11_ClassificationTotal ==
  [][/\ TreatedOnce(fetchTask, fetchTask')
     /\ \A i \in DOMAIN tasks : TreatedOnce(tasks[i], tasks'[i])
    ]_vars

\* The fetch raised an error the code does not classify and is waiting for its
\* next attempt.
C11_Witness ==
  /\ pc = "fetch"
  /\ fetchTask.state = "scheduled"
  /\ fetchTask.attempts >= 1
  /\ fetchTask.lastError = "HTTPError"
  /\ fetchTask.wait > 0

\* Changes of status along starting -> scanning -> {completed, cancelled,
\* failed} and scanning <-> paused.
CodeTransitions ==
  { <<"starting", "scanning">>,
    <<"scanning", "completed">>, <<"scanning", "cancelled">>,
    <<"scanning", "failed">>,
    <<"scanning", "paused">>, <<"paused", "scanning">> }

\* run() assigns scanning (workflows.py:199) and, when its loop dispatches
\* nothing, a terminal status before its next await: one step then goes from
\* starting to completed or cancelled.
PassingScanning ==
  { <<"starting", t[2]>> : t \in {u \in CodeTransitions : u[1] = "scanning"} }

\* C12 as claimed: the status starts at starting and every change of it is a
\* step of starting -> fetching -> scanning -> {completed, cancelled, failed} or
\* of scanning <-> paused. A step that passes scanning on its way is not judged.
ClaimedTransitions ==
  { <<"starting", "fetching">>, <<"fetching", "scanning">>,
    <<"scanning", "completed">>, <<"scanning", "cancelled">>,
    <<"scanning", "failed">>,
    <<"scanning", "paused">>, <<"paused", "scanning">> }

C12_StatusPathAsClaimed ==
  /\ progress.status = "starting"
  /\ [][(/\ progress'.status # progress.status
          /\ <<progress.status, progress'.status>> \notin PassingScanning)
          => <<progress.status, progress'.status>> \in ClaimedTransitions]_vars

\* C12, amended: there is no fetching status; the status is starting until the
\* list is fetched and then changes along starting -> scanning -> {completed,
\* cancelled, failed}, with scanning <-> paused the only reversible step.
\* Nothing leaves completed, cancelled or failed.
C12_StatusPath ==
  /\ progress.status = "starting"
  /\ [][progress'.status # progress.status
          => <<progress.status, progress'.status>>
               \in CodeTransitions \cup PassingScanning]_vars

\* The scan completed, a cancel arrived before run() returned, and the run
\* ended with its status still completed.
C12_Witness ==
  /\ pc = "done"
  /\ progress.status = "completed"
  /\ "report" \in cancelPhases
  /\ Len(repos) > 0

\* C13: once the status is completed every fetched resource is accounted for
\* exactly once, as scanned (its result recorded) or as an error:
\* scanned_repos + errors = total_repos = the number of fetched resources, and
\* compliant_repos + non_compliant_repos = scanned_repos.
C13_CompletedAccountsForAll ==
  progress.status = "completed"
    => /\ progress.total_repos = Len(repos)
       /\ progress.scanned_repos + progress.errors = progress.total_repos
       /\ progress.compliant_repos + progress.non_compliant_repos
            = progress.scanned_repos
       /\ \A i \in 1..Len(repos) :
            i \in DOMAIN tasks /\ tasks[i].state \in {"completed", "failed"}
       /\ progress.scanned_repos = Cardinality(Completed)
       /\ progress.errors = Cardinality(Failed)
       /\ Len(results) = progress.scanned_repos

\* A scan of several batches completed with a failed item, a compliant item
\* and a non-compliant one.
C13_Witness ==
  /\ progress.status = "completed"
  /\ progress.total_repos > BATCH_SIZE
  /\ progress.errors >= 1
  /\ progress.compliant_repos >= 1
  /\ progress.non_compliant_repos >= 1

\* C14: wherever cancel_scan(reason) is delivered before run() returns (before
\* the first batch, while a batch is in flight, or after the last batch, while
\* the report is generated), from then on is_cancelled() answers true, and the
\* report run() returns has cancelled = true and carries the reason delivered
\* (the last one, when cancel_scan was delivered more than once).
C14_CancelAlwaysReported ==
  /\ [](/\ cancelPhases # {} => cancel_requested /\ cancel_reason \in Reasons
        /\ (pc = "done" /\ cancelPhases # {})
             => /\ report # NoReport
                /\ report.cancelled
                /\ report.cancel_reason = cancel_reason)
  /\ [][/\ cancelPhases' # cancelPhases => cancel_requested' /\ cancel_reason' \in Reasons
        /\ cancel_reason' # cancel_reason => pc # "done" /\ cancel_requested'
        /\ (cancelPhases # {} /\ queryResult' # queryResult
              /\ queryResult'.query = "is_cancelled") => queryResult'.value = TRUE
       ]_vars

\* Every batch was merged and the scan marked completed; the only cancel came
\* while the report was generated, and the returned report carries it.
C14_Witness ==
  /\ pc = "done"
  /\ cancelPhases = {"report"}
  /\ Len(repos) > BATCH_SIZE
  /\ Len(results) + progress.errors = Len(repos)
  /\ report.cancelled
  /\ report.cancel_reason = "r2"

\* C15: a control-plane handler writes its request flags and nothing else:
\* cancel_scan changes only the cancel flag and reason; pause_scan only the
\* pause flag and duration; update_batch_size only batchSize (once validated)
\* and what its caller is told. Position, counters, status, results,
\* activities and report are as before.
Orchestration ==
  <<pc, input, progress, results, repos, batch_start, fetchTask, tasks, report,
    queryResult, timer_active>>

C15_HandlersWriteFlagsOnly ==
  [][/\ (\E reason \in Reasons : cancel_scan(reason))
          => UNCHANGED <<Orchestration, cpVars, wire>>
     /\ (\E d \in PauseDurations : pause_scan(d))
          => UNCHANGED <<Orchestration, cancel_requested, cancel_reason,
                         batch_size, handlers, updateResult>>
     /\ ((\E n \in BatchSizeInputs : UpdateAdmitted(n))
           \/ (\E h \in handlers : update_batch_size(h)))
          => UNCHANGED <<Orchestration, cancel_requested, cancel_reason,
                         pause_requested, pause_duration_seconds>>
    ]_vars

\* A cancel, a pause and an accepted update arrived while the second batch was
\* in flight; the counters and results of the first batch stand.
C15_Witness ==
  /\ pc = "gather"
  /\ batch_start > 0
  /\ "gather" \in cancelPhases
  /\ cancel_requested
  /\ pause_requested
  /\ batch_size # BATCH_SIZE
  /\ progress.status = "scanning"
  /\ progress.scanned_repos + progress.errors = batch_start
  /\ Len(results) = progress.scanned_repos

\* C16: a cancel_scan(reason) delivered when that reason is already recorded
\* changes nothing in the state of the run, so the run goes on to the same
\* outcome: the report carries the reason, once.
C16_CancelIdempotent ==
  /\ [][(\E reason \in Reasons :
           cancel_requested /\ cancel_reason = reason /\ cancel_scan(reason))
          => UNCHANGED <<wfVars, cpVars, queryResult, wire>>]_vars
  /\ []((cancelRepeated /\ pc = "done")
          => report.cancelled /\ report.cancel_reason = cancel_reason)

\* cancel_scan("r1") arrived twice, in two different positions of run(), and
\* the run returned its report.
C16_Witness ==
  /\ cancelRepeated
  /\ pc = "done"
  /\ Cardinality(cancelPhases) >= 2
  /\ cancel_reason = "r1"
  /\ report.cancelled
  /\ report.cancel_reason = "r1"

\* C17: run() returns only when no handler is in progress: while an accepted
\* update has not completed the report is held back, and when the run has
\* returned no handler execution is left.
C17_HandlerDrain ==
  /\ (pc = "report" /\ handlers # {}) => ~ENABLED ReportReturn
  /\ pc = "done" => handlers = {} /\ report # NoReport

\* The scan completed while an accepted update was still in progress: the
\* report waits for it.
C17_Witness ==
  /\ pc = "report"
  /\ progress.status = "completed"
  /\ handlers # {}
  /\ Len(repos) > 0

\* C18: update_batch_size(n) with n < 1, n > 50, or on a scan whose status is
\* completed or cancelled, is rejected: the caller gets an error and nothing
\* else changes, batchSize included. The validator runs before any mutation:
\* only an update it accepted is handed to the handler, and batchSize changes
\* only when the handler of an accepted update runs.
MustReject(n) ==
  n < 1 \/ n > 50 \/ progress.status \in {"completed", "cancelled"}

C18_InvalidUpdateRejected ==
  /\ [](\A h \in handlers : h.arg >= 1 /\ h.arg <= 50)
  /\ [][/\ \A n \in BatchSizeInputs :
             (MustReject(n) /\ UpdateAdmitted(n))
               => /\ "error" \in DOMAIN updateResult'
                  /\ UNCHANGED <<wfVars, queryResult, batch_size, handlers,
                                 pause_requested, pause_duration_seconds,
                                 timer_active>>
        /\ batch_size' # batch_size
             => \E h \in handlers : h \notin handlers' /\ batch_size' = h.arg
       ]_vars

\* An update was rejected because the scan was already cancelled; batchSize is
\* what it was.
C18_Witness ==
  /\ pc = "report"
  /\ progress.status = "cancelled"
  /\ updateResult = Rejected("Cannot update batch size of a finished scan")
  /\ batch_size = BATCH_SIZE
  /\ handlers = {}

\* C19: update_batch_size(n) with 1 <= n <= 50 on a scan that is not finished
\* is accepted; its handler sets batchSize to n and returns the confirmation to
\* the caller. A batch dispatched contains at most batchSize resources, the
\* value set by the last completed update, and 1 <= batchSize <= 50 always.
C19_ValidUpdateApplied ==
  /\ [](batch_size >= 1 /\ batch_size <= 50)
  /\ [][/\ \A n \in BatchSizeInputs :
             (n >= 1 /\ n <= 50 /\ progress.status \notin TerminalStatuses
                /\ UpdateAdmitted(n))
               => \E h \in handlers' : h.arg = n /\ h \notin handlers
        /\ \A h \in handlers :
             update_batch_size(h)
               => batch_size' = h.arg /\ updateResult' = [ok |-> h.arg]
        /\ DOMAIN tasks' # DOMAIN tasks
             => /\ batch_size' = batch_size
                /\ Cardinality(DOMAIN tasks' \ DOMAIN tasks) <= batch_size
                /\ DOMAIN tasks' \ DOMAIN tasks
                     = (batch_start' + 1)..Cardinality(DOMAIN tasks')
       ]_vars

\* update_batch_size(1) was confirmed and the batch in flight, dispatched
\* after it, holds one resource although more are left.
C19_Witness ==
  /\ pc = "gather"
  /\ batch_size = 1
  /\ batch_size # BATCH_SIZE
  /\ updateResult = [ok |-> 1]
  /\ batch_start > 0
  /\ Cardinality(InFlightBatch(tasks)) = 1
  /\ Cardinality(DOMAIN tasks) < Len(repos)

\* C20: with a pause requested, the loop boundary that would dispatch the next
\* batch sets the status to paused and starts the timer instead; while the
\* status is paused no check is in flight and none is dispatched; the status
\* leaves paused only when the timer fires, which clears the pause flag and
\* sets the status to scanning; and a paused scan always resumes.
Paused == progress.status = "paused"

C20_PauseThenResume ==
  /\ [](Paused => pc = "paused" /\ timer_active /\ pause_requested
                    /\ InFlight = {})
  /\ [][/\ (pause_requested /\ ~cancel_requested /\ pc \in {"fetch", "gather"}
             /\ (pc' # pc \/ batch_start' # batch_start)
             /\ batch_start' < Len(repos'))
             => Paused' /\ timer_active' /\ DOMAIN tasks' = DOMAIN tasks
        /\ (Paused /\ Paused') => tasks' = tasks
        /\ (Paused /\ ~Paused')
             => /\ progress'.status = "scanning"
                /\ ~pause_requested'
                /\ ~timer_active'
                /\ pc' = "gather"
       ]_vars
  /\ (Paused ~> progress.status = "scanning")

\* The scan paused after its first batch, the timer fired, and the next batch
\* is in flight with the pause flag cleared.
C20_Witness ==
  /\ pc = "gather"
  /\ progress.status = "scanning"
  /\ batch_start > 0
  /\ pause_duration_seconds >= 1
  /\ ~pause_requested
  /\ ~timer_active
  /\ InFlight # {}

\* The results of the checks that returned, in the order of the resource list.
RECURSIVE RecordedOutcomes(_, _)
RecordedOutcomes(ts, n) ==
  IF n = 0 THEN <<>>
  ELSE IF ts[n].state = "completed"
    THEN Append(RecordedOutcomes(ts, n - 1), ts[n].value)
    ELSE RecordedOutcomes(ts, n - 1)

\* What a scan that never restarts returns for the checks of `tasks` and the
\* cancellation of this scan.
UninterruptedReport ==
  LET rs == RecordedOutcomes(tasks, Cardinality(DOMAIN tasks))
      rep == generate_report(input.org, rs)
  IN FinalReport(IF cancel_requested
                   THEN [base |-> rep, cancelled |-> TRUE,
                         cancel_reason |-> cancel_reason,
                         repos_scanned_before_cancel |-> Len(rs)]
                   ELSE [base |-> rep, cancelled |-> FALSE],
                 NoCheckpoint)

RecordedNames(res) == {res[k].repository : k \in DOMAIN res}

\* C22: a run hands off only with no check in flight; the Checkpoint it builds
\* holds the results recorded so far, the resources not yet dispatched, the
\* offset, the batchSize and continuationCount + 1; the run that hands off
\* returns no report; and no step dispatches a resource that was dispatched
\* before or has a recorded result.
C22_CheckpointAtBoundary ==
  [][/\ (pc # "continued" /\ pc' = "continued") =>
          LET n == Cardinality(DOMAIN tasks') IN
            /\ \A i \in DOMAIN tasks' : tasks'[i].state # "scheduled"
            /\ checkpoint'.results = results'
            /\ checkpoint'.results = RecordedOutcomes(tasks', n)
            /\ checkpoint'.remainingResources = SubSeq(repos', n + 1, Len(repos'))
            /\ checkpoint'.offset = n
            /\ checkpoint'.offset = batch_start'
            /\ checkpoint'.batchSize = batch_size'
            /\ checkpoint'.continuationCount = continuation_count(checkpoint) + 1
            /\ report' = NoReport
     /\ pc' = "continued" => report' = NoReport
     /\ \A i \in DOMAIN tasks' :
          (tasks'[i].state = "scheduled" /\ (i \notin DOMAIN tasks \/ tasks[i] # tasks'[i]))
            => /\ i \notin DOMAIN tasks
               /\ repos'[i] \notin RecordedNames(results')
               /\ pc = "continued" => i > checkpoint.offset
    ]_vars

\* The run seeded from the second Checkpoint of a scan, taken with a batchSize
\* of 1 and with results recorded, has dispatched the first of its remaining
\* resources.
C22_Witness ==
  /\ pc = "gather"
  /\ continuation_count(checkpoint) = 2
  /\ checkpoint.batchSize = 1
  /\ checkpoint.results # <<>>
  /\ checkpoint.remainingResources # <<>>
  /\ tasks[checkpoint.offset + 1].state = "scheduled"
  /\ batch_start = checkpoint.offset

\* The sub-statuses of a result.
SubStatuses(r) == {r.secret_scanning, r.dependabot_alerts, r.code_scanning}

\* C23: is_fully_compliant of a result is true exactly when its three
\* sub-statuses are ENABLED, and false as soon as one of them is UNKNOWN,
\* DISABLED, NOT_CONFIGURED or NO_ACCESS.
C23_CompliantIffAllEnabled ==
  pc = "classified" =>
    \A k \in DOMAIN results :
      /\ queryResult[k] <=> SubStatuses(results[k]) = {ENABLED_STATUS}
      /\ SubStatuses(results[k]) \cap {UNKNOWN, DISABLED, NOT_CONFIGURED, NO_ACCESS} # {}
           => ~queryResult[k]

\* Of three results one is compliant and the all-UNKNOWN default is not.
C23_Witness ==
  /\ pc = "classified"
  /\ Len(results) = 3
  /\ queryResult[1]
  /\ ~queryResult[2]
  /\ results[2] = RepoSecurityResult(results[2].repository)
  /\ SubStatuses(results[3]) = {ENABLED_STATUS, NO_ACCESS}
  /\ ~queryResult[3]

\* The recorded results that are not compliant and carry no error.
Findings == {k \in DOMAIN results :
               /\ SubStatuses(results[k]) # {ENABLED_STATUS}
               /\ results[k].error = "None"}

\* C24: the report counts as fully_compliant the recorded results whose three
\* sub-statuses are ENABLED, and lists in non_compliant_repos, once each and
\* in the order recorded, the names of the results that are not compliant and
\* carry no error; the name of a result with an error is not listed.
C24_ReportCompliance ==
  pc = "reported" =>
    LET listed == report.non_compliant_repos IN
      /\ report.fully_compliant =
           Cardinality({k \in DOMAIN results : SubStatuses(results[k]) = {ENABLED_STATUS}})
      /\ {listed[j] : j \in DOMAIN listed} = {results[k].repository : k \in Findings}
      /\ Len(listed) = Cardinality(Findings)
      /\ \A i, j \in DOMAIN listed : i < j =>
           \E k, l \in Findings : /\ k < l
                                   /\ results[k].repository = listed[i]
                                   /\ results[l].repository = listed[j]
      /\ \A k \in DOMAIN results :
           results[k].error # "None" =>
             \A j \in DOMAIN listed : listed[j] # results[k].repository

\* The report on a compliant result, a partial one and one that is not
\* compliant and carries an error lists the partial one alone.
C24_Witness ==
  /\ pc = "reported"
  /\ Len(results) = 3
  /\ report.fully_compliant = 1
  /\ Len(report.non_compliant_repos) = 1
  /\ \E k \in DOMAIN results : /\ results[k].error # "None"
                                /\ SubStatuses(results[k]) = {UNKNOWN}

\* The recorded results that carry an error.
ErrorResults == {k \in DOMAIN results : results[k].error # "None"}

\* C25: an item whose check comes back with an error of its own does not end
\* the scan, and is counted in progress.errors and not in
\* progress.non_compliant_repos.
C25_ItemErrorCountedAsError ==
  /\ ErrorResults # {} => pc # "failed"
  /\ progress.errors >= Cardinality(ErrorResults)
  /\ progress.non_compliant_repos =
       Cardinality({k \in DOMAIN results :
                      ~is_fully_compliant(results[k]) /\ results[k].error = "None"})

\* C26: in the final report, errors counts one for each item whose check
\* failed until its retries were used up, next to the results that carry an
\* error.
C26_ExhaustedItemInErrorCount ==
  pc = "done" =>
    report.base.errors = Cardinality(ErrorResults) + Cardinality(Failed)

\* C27: the report of a run that completed has as total_repos the number of
\* repositories the fetch returned.
C27_ReportTotalIsFetched ==
  (pc = "done" /\ progress.status = "completed") =>
    /\ report.base.total_repos = progress.total_repos
    /\ report.base.total_repos = Len(repos)

\* C29: the counters after merging a batch in any order of its items are the
\* counters after merging it in the order of the list, and the same results
\* are recorded.
C29_MergeCommutative ==
  pc = "merged" =>
    LET inOrder ==
          MergeBatch([progress |-> [ScanProgress(input.org, "scanning")
                                      EXCEPT !.total_repos = Len(tasks)],
                      results |-> <<>>],
                     [k \in 1..Len(tasks) |-> tasks[k].value])
    IN /\ progress = inOrder.progress
       /\ {results[k] : k \in DOMAIN results}
            = {inOrder.results[k] : k \in DOMAIN inOrder.results}
       /\ Len(results) = Len(inOrder.results)

\* A batch of a failed item, a compliant one and a non-compliant one was
\* merged with the results in the reverse of their order in the list.
C29_Witness ==
  /\ pc = "merged"
  /\ Len(tasks) = 3
  /\ tasks[1].state = "failed"
  /\ progress.errors = 1
  /\ progress.compliant_repos = 1
  /\ progress.non_compliant_repos = 1
  /\ results[1].repository > results[2].repository

\* The fields of a RepoSecurityResult and of a report.
ResultFields ==
  {"repository", "secret_scanning", "dependabot_alerts", "code_scanning", "error"}
ReportFields ==
  {"org", "total_repos", "fully_compliant", "compliance_rate",
   "secret_scanning_enabled", "dependabot_enabled", "code_scanning_enabled",
   "errors", "non_compliant_repos"}

\* C30: no recorded result and no report has a field for the token or a field
\* whose value is the token, and the results and the report are determined by
\* the organisation and the outcomes of the checks, so that they are the same
\* for every token.
C30_NoCredentialInOutput ==
  /\ \A k \in DOMAIN results :
       /\ DOMAIN results[k] = ResultFields
       /\ \A f \in ResultFields \ {"repository"} : results[k][f] # input.token
  /\ pc \in {"merged", "classified", "reported"} =>
       /\ {results[k] : k \in DOMAIN results}
            = {tasks[i].value : i \in Completed}
       /\ Len(results) = Cardinality(Completed)
  /\ pc = "reported" =>
       /\ DOMAIN report = ReportFields
       /\ report.org = input.org
       /\ report.org # input.token
       /\ report.total_repos = Len(results)
       /\ report.fully_compliant =
            Cardinality({k \in DOMAIN results : SubStatuses(results[k]) = {ENABLED_STATUS}})
       /\ report.compliance_rate =
            ComplianceRate(report.fully_compliant, report.total_repos)
       /\ report.secret_scanning_enabled =
            Cardinality({k \in DOMAIN results : results[k].secret_scanning = ENABLED_STATUS})
       /\ report.dependabot_enabled =
            Cardinality({k \in DOMAIN results : results[k].dependabot_alerts = ENABLED_STATUS})
       /\ report.code_scanning_enabled =
            Cardinality({k \in DOMAIN results : results[k].code_scanning = ENABLED_STATUS})
       /\ report.errors = Cardinality(ErrorResults)
       /\ {report.non_compliant_repos[j] : j \in DOMAIN report.non_compliant_repos}
            = {results[k].repository : k \in Findings}

\* A run with the second token has recorded three results, the default
\* result among them, and returned its report.
C30_Witness ==
  /\ pc = "reported"
  /\ input.token = "ghp_b"
  /\ Len(results) = 3
  /\ \E k \in DOMAIN results : results[k] = RepoSecurityResult(results[k].repository)
  /\ report.fully_compliant >= 1

\* C31: every payload the codec encodes is marked binary/encrypted and its
\* data differs from the data of the plain payload; decoding with the key
\* that encoded returns a list of the same length with the data and the
\* metadata of each plain payload.
C31_CodecRoundTrip ==
  /\ pc \in {"encoded", "decoded"} =>
       /\ Len(wire.encoded) = Len(wire.payloads)
       /\ \A i \in 1..Len(wire.payloads) :
            /\ wire.encoded[i].metadata = [encoding |-> ENCODING_KEY]
            /\ wire.encoded[i].data # wire.payloads[i].data
  /\ (pc = "decoded" /\ wire.decodedWith = wire.key) =>
       /\ "return" \in DOMAIN wire.decoded
       /\ Len(wire.decoded.return) = Len(wire.payloads)
       /\ \A i \in 1..Len(wire.payloads) :
            /\ wire.decoded.return[i].data = wire.payloads[i].data
            /\ wire.decoded.return[i].metadata = wire.payloads[i].metadata

\* Two payloads, one of them a plain payload that carries the marker of the
\* codec, were encoded and decoded with the same key.
C31_Witness ==
  /\ pc = "decoded"
  /\ wire.decodedWith = wire.key
  /\ Len(wire.payloads) = 2
  /\ EncodingOf(wire.payloads[1]) = ENCODING_KEY
  /\ EncodingOf(wire.payloads[2]) = "json/plain"
  /\ wire.decoded = [return |-> wire.payloads]

\* C32: in every step the recorded results keep what they held and only grow
\* at the end; a check that was dispatched stays dispatched and, once
\* resolved, is not dispatched again; and each result appended is the result
\* of the check of a repository that had no recorded result.
C32_ResultsAppendOnly ==
  [][/\ Len(results') >= Len(results)
     /\ SubSeq(results', 1, Len(results)) = results
     /\ \A i \in DOMAIN tasks :
          /\ i \in DOMAIN tasks'
          /\ tasks[i].state # "scheduled" => tasks'[i] = tasks[i]
     /\ \A k \in (Len(results) + 1)..Len(results') :
          /\ \A l \in 1..(k - 1) :
               results'[l].repository # results'[k].repository
          /\ \E i \in DOMAIN tasks' : /\ tasks'[i].state = "completed"
                                       /\ tasks'[i].value = results'[k]
                                       /\ repos'[i] = results'[k].repository
    ]_vars

\* The results of a second batch were appended to those of the first, and
\* one check of the scan had failed.
C32_Witness ==
  /\ Len(results) >= 3
  /\ batch_start >= 2 * BATCH_SIZE
  /\ Failed # {}
  /\ results[1].repository < results[Len(results)].repository

\* C33: once cancel_scan has been delivered, no step dispatches a check: the
\* checks of the scan are those dispatched before, and the loop is left when
\* the batch then in flight has resolved, or when the list arrives if the
\* cancel came before it.
C33_NoDispatchAfterCancel ==
  [][cancel_requested =>
       /\ DOMAIN tasks' = DOMAIN tasks
       /\ (pc = "gather" /\ InFlight # {} /\ \A i \in DOMAIN tasks' : tasks'[i].state # "scheduled")
            => pc' = "report"
       /\ pc = "fetch" => pc' \in {"fetch", "failed", "report"}
    ]_vars

\* A scan cancelled while its first batch was in flight has returned, with
\* that batch merged and the repositories after it never dispatched.
C33_Witness ==
  /\ pc = "done"
  /\ cancelPhases = {"gather"}
  /\ DOMAIN tasks = 1..BATCH_SIZE
  /\ Len(repos) > BATCH_SIZE
  /\ Len(results) = BATCH_SIZE

\* C34: a run that ended on a failed fetch_org_repos shows the status failed.
C34_FatalFetchLeavesFailed ==
  pc = "failed" => progress.status = "failed"

\* C35: an attempt of fetch_org_repos answered with 404 or 401 raises
\* ValueError and fails the activity and the run at once; an attempt answered
\* with 403 and a rate-limit message raises RuntimeError and is retried while
\* attempts are left; and an attempt fails the activity with attempts left
\* only on 404 or 401.
C35_FetchClassification ==
  [][\A resp \in FetchResponses :
       FetchFail(resp) =>
         /\ resp.code \in {404, 401} =>
              /\ fetchTask'.lastError = "ValueError"
              /\ fetchTask'.state = "failed"
              /\ pc' = "failed"
         /\ (resp.code = 403 /\ resp.rate_limit) =>
              /\ fetchTask'.lastError = "RuntimeError"
              /\ fetchTask'.attempts < maximum_attempts =>
                   /\ fetchTask'.state = "scheduled"
                   /\ fetchTask'.wait > 0
                   /\ pc' = "fetch"
         /\ (fetchTask'.state = "failed" /\ fetchTask'.attempts < maximum_attempts)
              => resp.code \in {404, 401}
         /\ fetchTask'.lastError = "ValueError" <=> resp.code \in {404, 401}
    ]_vars

\* The fetch hit the rate limit twice and waits for its third attempt.
C35_Witness ==
  /\ pc = "fetch"
  /\ fetchTask.state = "scheduled"
  /\ fetchTask.attempts = 2
  /\ fetchTask.lastError = "RuntimeError"
  /\ fetchTask.wait = RetryInterval(2)

\* C36: once fetch_org_repos has returned an empty list, no check is ever
\* dispatched, the status is completed, and the report returned has
\* total_repos 0 and compliance_rate "N/A"; and any report returned has
\* compliance_rate "N/A" exactly when its total_repos is 0.
C36_EmptyListCompletes ==
  /\ (fetchTask.state = "completed" /\ fetchTask.value = 0) =>
       /\ repos = <<>>
       /\ DOMAIN tasks = {}
       /\ pc \in {"report", "done"}
       /\ progress.status = "completed"
       /\ progress.total_repos = 0
       /\ pc = "done" => /\ report.base.total_repos = 0
                         /\ report.base.compliance_rate = [na |-> TRUE]
  /\ pc = "done" =>
       (report.base.compliance_rate = [na |-> TRUE] <=> report.base.total_repos = 0)

\* The run of an organisation without repositories has returned its report.
C36_Witness ==
  /\ pc = "done"
  /\ fetchTask.state = "completed"
  /\ fetchTask.value = 0
  /\ report.base.compliance_rate = [na |-> TRUE]
  /\ ~cancel_requested

\* C37: the report a run returns is marked cancelled, with a cancel_reason,
\* exactly when the final status of the run is cancelled; in particular a run
\* whose final status is completed returns no report marked cancelled.
C37_CancelledReportIffCancelledStatus ==
  pc = "done" =>
    /\ report.cancelled <=> progress.status = "cancelled"
    /\ report.cancelled => "cancel_reason" \in DOMAIN report
    /\ progress.status = "completed" => ~report.cancelled

\* C38: in every reachable state scanned_repos is the number of recorded
\* results, so the report a run returns has total_repos = scanned_repos and
\* fully_compliant = compliant_repos, and, when it is marked cancelled,
\* repos_scanned_before_cancel = total_repos.
C38_ScannedIsRecorded ==
  /\ progress.scanned_repos = Len(results)
  /\ progress.compliant_repos =
       Cardinality({i \in DOMAIN results : is_fully_compliant(results[i])})
  /\ pc = "done" =>
       /\ report.base.total_repos = progress.scanned_repos
       /\ report.base.fully_compliant = progress.compliant_repos
       /\ report.cancelled =>
            report.repos_scanned_before_cancel = report.base.total_repos

\* A cancelled run has returned the report of what it recorded, after a check
\* that gave up and one that returned a compliant result.
C38_Witness ==
  /\ pc = "done"
  /\ report.cancelled
  /\ progress.status = "cancelled"
  /\ progress.errors >= 1
  /\ progress.compliant_repos >= 1
  /\ report.repos_scanned_before_cancel = Len(results)
  /\ Len(results) < progress.total_repos

\* C39: if every dispatched activity eventually resolves, every run eventually
\* ends with a terminal status (completed, cancelled or failed), whatever
\* cancel signals and queries arrive on the way, and a run that ended
\* otherwise than by the failure of its fetch has returned its report.
C39_Termination ==
  <>(/\ pc \in {"done", "failed"}
     /\ progress.status \in {"completed", "cancelled", "failed"}
     /\ pc = "done" => report # NoReport)

\* Every run ends: it returns its report with status completed or cancelled,
\* or the failure of fetch_org_repos raises out of run().
RunEnds ==
  <>(\/ /\ pc = "done"
        /\ progress.status \in {"completed", "cancelled"}
        /\ report # NoReport
     \/ /\ pc = "failed"
        /\ fetchTask.state = "failed")

====
